---- MODULE Spec2Model ----
(***************************************************************************)
(* Browser-side client of the ordering portal: the shopping cart           *)
(* (cart.js), the page initialisation and navigation (main.js), the        *)
(* product / order / service lists and the settings handlers.              *)
(*                                                                         *)
(* Strings of the source that are not ASCII are written with ASCII         *)
(* stand-ins:                                                              *)
(*   user types  "admin" = '管理员', "normal" = '普通用户',                *)
(*               "supplier" = '厂家', "student" = '学生用户',              *)
(*               "gongyingshang" = '供应商' (the literal initUI tests)     *)
(*   statuses    "draft" = '暂存', "submitted" = '发起',                   *)
(*               "confirmed" = '确认', "invalid" = '无效'                  *)
(***************************************************************************)
EXTENDS Integers, Sequences, FiniteSets, TLC

(***************************************************************************)
(* Bounds of the model                                                     *)
(***************************************************************************)
MaxQty == 2
MaxInFlight == 2

SaveIds == 1..MaxInFlight

\* a nullable number is <<>> (null, undefined, NaN) or <<n>>
NULL == <<>>
NaN == <<>>
Num(n) == <<n>>

UserTypes == {"admin", "normal", "supplier", "student"}
Pages == {"products", "orders", "services", "statistics", "settings"}

VARIABLES
    catalogue,     \* the backend's products: product id -> supplier id
    phase,         \* position of the DOMContentLoaded handler of main.js
    currentUser,   \* main.js `let currentUser`
    currentPage,   \* main.js `let currentPage`
    cart,          \* cart.js `let cart`: supplier id -> list of line items
    badge,         \* the .cart-badge element of #cartBtn: {} absent, {n} text n
    cartModal,     \* the #cartModal element: open?, layout and rendered rows
    adds,          \* addProductToCart invocations awaiting GET /products/{id}
    saves,         \* saveOrder invocations
    posted,        \* history: the POST bodies each saveOrder invocation has sent
    modalBody,     \* the quantity fields and the total line of the cart modal
    received,      \* history: what the last quantity handler was called with
    pagination,    \* the pagination bar rendered under each list
    ordersPage,    \* orders.js `let ordersPage`
    reqs,          \* other backend requests awaiting their response
    lastEvent,     \* what the last handler step showed to the user
    ui,            \* style.display of the elements initUI shows or hides
    productsPage,  \* products.js `let productsPage`
    servicesPage,  \* services.js `let servicesPage`
    productsTable, \* rows of #productsTableBody
    ordersTable,   \* rows of #ordersTableBody
    servicesTable, \* rows of #servicesTableBody
    usersTable,    \* rows of #usersTableBody
    dialog,        \* the confirmDialog awaiting the user's answer
    modals         \* the modals of #modalContainer that createModal built

vars == <<catalogue, phase, currentUser, currentPage, cart, badge, cartModal,
          adds, saves, posted, modalBody, received, pagination,
          ordersPage, reqs, lastEvent, ui, productsPage,
          servicesPage, productsTable, ordersTable, servicesTable, usersTable,
          dialog, modals>>

viewVars == <<ui, productsPage, servicesPage, productsTable, ordersTable,
              servicesTable, usersTable, dialog, modals>>

\* posted is kept by SpecSave only, modalBody and received by SpecView only,
\* pagination by SpecLists only
detailVars == <<posted, modalBody, received, pagination>>
cartVars == <<cart, badge, cartModal, adds, saves, detailVars>>
\* what the list loaders leave alone: they render a pagination bar
cartStateVars == <<cart, badge, cartModal, adds, saves, posted, modalBody, received>>
userVars == <<catalogue, phase, currentUser, currentPage>>

\* the number of saveOrder invocations awaiting a response
RECURSIVE AwaitingSaves(_, _)
AwaitingSaves(svs, i) ==
    IF i = 0 THEN 0
    ELSE (IF svs[i].pc = "awaiting" THEN 1 ELSE 0) + AwaitingSaves(svs, i - 1)

\* the number of backend requests awaiting their response
InFlight ==
    Len(adds) + AwaitingSaves(saves, MaxInFlight) + Len(reqs)
      + (IF phase = "auth" THEN 1 ELSE 0)

\* `currentUser = null`
NoUser == [user_type |-> "null", id |-> 0, supplier_id |-> NULL]

\* a user as /users/me returns it
User(type) ==
    [user_type |-> type, id |-> 1,
     supplier_id |-> IF type = "supplier" THEN Num(1) ELSE NULL]

\* a backend request awaiting its response: the invocation of the async
\* function that awaits it (its rank among the invocations that await a
\* response, oldest first), the function, the request, its argument
\* seen: the status the list showed for the record when the handler's button
\* was clicked ("none" for the handlers that are not started from a row)
\* body: the JSON body, where the model looks at it
Req(inv, h, r, arg, seen) ==
    [inv |-> inv, h |-> h, r |-> r, arg |-> arg, seen |-> seen, body |-> NULL]

\* a new invocation of async function h reaches `await apiRequest(r)`
IssueSeen(rs, h, r, arg, seen) == Append(rs, Req(Len(rs) + 1, h, r, arg, seen))
Issue(rs, h, r, arg) == IssueSeen(rs, h, r, arg, "none")

\* rs after the invocation of its i-th request returned
Without(rs, i) ==
    [j \in 1..(Len(rs) - 1) |->
        IF j < i THEN rs[j] ELSE [rs[j + 1] EXCEPT !.inv = @ - 1]]

(***************************************************************************)
(* Messages (showMessage of utils.js) and the record of a handler step     *)
(***************************************************************************)
\* text: the fixed part of the message; err: the message ends with error.message
Msg(type, text, err) == [type |-> type, text |-> text, err |-> err]

\* the record of a handler that is not running
NoRun == [outcome |-> "none"]

\* fail: the step handled a rejected backend request; shown: the messages
\* the step showed; run: the invocation the step completed
Event(fail, shown) == [fail |-> fail, shown |-> shown, run |-> NoRun]

NoEvent == Event(FALSE, <<>>)

(***************************************************************************)
(* The product catalogue of the backend, as GET /products/{id} returns it  *)
(***************************************************************************)
\* product 1 has no internal price, the others have one
ProductInternalPrice(p) == IF p = 1 THEN NULL ELSE Num(p + 1)
ProductTaxPrice(p) == p + 2

\* the products the backend can hold: two products of two suppliers, or two
\* products of one supplier
Catalogues == {<<2, 1>>, <<1, 1>>}

ProductResponse(p) ==
    [id |-> p, supplier_id |-> catalogue[p],
     internal_price |-> ProductInternalPrice(p),
     tax_included_price |-> ProductTaxPrice(p)]

(***************************************************************************)
(* Cart helpers                                                            *)
(***************************************************************************)
EmptyCart == [s \in {} |-> <<>>]

\* the line item addProductToCart pushes; built_from is a history field: the
\* supplier_id of the product the item was built from
NewItem(product) ==
    [product_id |-> product.id,
     internal_price |-> product.internal_price,
     tax_included_price |-> product.tax_included_price,
     quantity |-> 1,
     muted |-> FALSE,
     built_from |-> product.supplier_id]

\* a slip: the items are compared by a field they do not have (item.id), so
\* none is found
FindIndexById(items, productId, i) == 0

\* index of the first item with the product id, 0 when there is none
RECURSIVE FindIndex(_, _, _)
FindIndex(items, productId, i) ==
    IF i > Len(items) THEN 0
    ELSE IF items[i].product_id = productId THEN i
    ELSE FindIndex(items, productId, i + 1)

\* a slip: the muted items are not counted
RECURSIVE SumQuantityNotMuted(_)
SumQuantityNotMuted(items) ==
    IF items = <<>> THEN 0
    ELSE (IF Head(items).muted THEN 0 ELSE Head(items).quantity)
         + SumQuantityNotMuted(Tail(items))

\* the reduce of updateCartBadge over the items of one group
RECURSIVE SumQuantity(_)
SumQuantity(items) ==
    IF items = <<>> THEN 0 ELSE Head(items).quantity + SumQuantity(Tail(items))

RECURSIVE TotalItems(_, _)
TotalItems(c, keys) ==
    IF keys = {} THEN 0
    ELSE LET k == CHOOSE x \in keys : TRUE
         IN SumQuantity(c[k]) + TotalItems(c, keys \ {k})

\* updateCartBadge: the old badge is removed, a new one is added when the
\* total quantity is positive
updateCartBadge(c) ==
    LET totalItems == TotalItems(c, DOMAIN c)
    IN IF totalItems > 0 THEN {totalItems} ELSE {}

\* a slip: the group is keyed by the product's own id
TargetGroupByProductId(product) == product.id

\* the group a product lands in: cart[product.supplier_id]
TargetGroup(product) == product.supplier_id

\* the cart after addProductToCart received the product
CartAfterAdd(c, productId, product) ==
    LET supplierId == TargetGroup(product)
        items == IF supplierId \in DOMAIN c THEN c[supplierId] ELSE <<>>
        idx == FindIndex(items, productId, 1)
        newItems == IF idx > 0
                    THEN [items EXCEPT ![idx].quantity = @ + 1]
                    ELSE Append(items, NewItem(product))
    IN [s \in DOMAIN c \cup {supplierId} |->
            IF s = supplierId THEN newItems ELSE c[s]]

\* Array.prototype.splice(index, 1)
Splice(items, index) ==
    [j \in 1..(Len(items) - 1) |-> IF j < index THEN items[j] ELSE items[j + 1]]

\* a slip: the group is kept when its last item is removed
CartAfterRemoveKeepsGroup(c, supplierId, index) ==
    [c EXCEPT ![supplierId] = Splice(c[supplierId], index)]

\* the cart after removeFromCart(supplierId, index); index counts from 1 here
CartAfterRemove(c, supplierId, index) ==
    LET rest == Splice(c[supplierId], index)
    IN IF Len(rest) = 0
       THEN [s \in DOMAIN c \ {supplierId} |-> c[s]]
       ELSE [c EXCEPT ![supplierId] = rest]

\* keys of an object in for-in order: integer keys ascending
RECURSIVE SortedKeys(_)
SortedKeys(S) ==
    IF S = {} THEN <<>>
    ELSE LET m == CHOOSE x \in S : \A y \in S : x <= y
         IN <<m>> \o SortedKeys(S \ {m})

\* what renderCartContent puts in the modal body: per group the number of rows
RenderedRows(c) == [s \in DOMAIN c |-> Len(c[s])]

ClosedModal == [open |-> FALSE, mobile |-> FALSE, rows |-> EmptyCart]

\* no modal body: no quantity field and no #cartTotalText element
NoBody == [fields |-> EmptyCart, totals |-> <<>>]

\* no quantity handler ran in the last step
NoCall == [h |-> "none", supplierId |-> 0, index |-> 0, arg |-> <<>>]

(***************************************************************************)
(* The pagination bars                                                     *)
(***************************************************************************)
productsPageSize == 20
ordersPageSize == 20
servicesPageSize == 20

Lists == {"products", "orders", "services"}

PageSizeOf(list) ==
    CASE list = "products" -> productsPageSize
      [] list = "orders" -> ordersPageSize
      [] list = "services" -> servicesPageSize

\* Math.ceil(total / pageSize), for total >= 0 and pageSize > 0
Ceil(total, pageSize) == (total + pageSize - 1) \div pageSize

\* no pagination bar was rendered yet
NoPagination ==
    [rendered |-> FALSE, page |-> 0, totalPages |-> 0, prev |-> FALSE, next |-> FALSE]

\* render*Pagination(page, pageSize, total): the page and the number of
\* pages of the info text, and whether each button is enabled
renderPagination(page, pageSize, total) ==
    LET totalPages == Ceil(total, pageSize)
    IN [rendered |-> TRUE, page |-> page, totalPages |-> totalPages,
        prev |-> ~(page <= 1), next |-> ~(page >= totalPages)]

\* refreshCartModal: re-render the body when the modal exists
refreshCartModal(modal, c) ==
    IF modal.open THEN [modal EXCEPT !.rows = RenderedRows(c)] ELSE modal

(***************************************************************************)
(* parseInt, on a string given as a sequence of one-character strings      *)
(***************************************************************************)
DigitChars == {"0", "1", "2", "3", "4", "5", "6", "7", "8", "9"}

DigitValue(ch) ==
    CASE ch = "0" -> 0 [] ch = "1" -> 1 [] ch = "2" -> 2 [] ch = "3" -> 3
      [] ch = "4" -> 4 [] ch = "5" -> 5 [] ch = "6" -> 6 [] ch = "7" -> 7
      [] ch = "8" -> 8 [] ch = "9" -> 9

RECURSIVE SkipSpaces(_)
SkipSpaces(str) ==
    IF str # <<>> /\ Head(str) = " " THEN SkipSpaces(Tail(str)) ELSE str

\* value of the longest prefix of digits, acc is the value read so far
RECURSIVE LeadingDigits(_, _)
LeadingDigits(str, acc) ==
    IF str = <<>> \/ Head(str) \notin DigitChars THEN acc
    ELSE LeadingDigits(Tail(str), 10 * acc + DigitValue(Head(str)))

parseInt(str) ==
    LET t == SkipSpaces(str)
        neg == t # <<>> /\ Head(t) = "-"
        u == IF t # <<>> /\ Head(t) \in {"-", "+"} THEN Tail(t) ELSE t
    IN IF u = <<>> \/ Head(u) \notin DigitChars THEN NaN
       ELSE IF neg THEN Num(0 - LeadingDigits(u, 0))
       ELSE Num(LeadingDigits(u, 0))

\* a form field that does not exist: parseInt and parseFloat read the string
\* "undefined"
Undefined == <<"undefined">>

\* parseFloat on decimal notation, the value in tenths: the inputs of the
\* model carry at most one fractional digit
parseFloat(str) ==
    LET t == SkipSpaces(str)
        neg == t # <<>> /\ Head(t) = "-"
        u == IF t # <<>> /\ Head(t) \in {"-", "+"} THEN Tail(t) ELSE t
        whole == LeadingDigits(u, 0)
        RECURSIVE AfterDigits(_)
        AfterDigits(v) ==
            IF v = <<>> \/ Head(v) \notin DigitChars THEN v ELSE AfterDigits(Tail(v))
        rest == AfterDigits(u)
        hasWhole == u # <<>> /\ Head(u) \in DigitChars
        frac == IF rest # <<>> /\ Head(rest) = "." THEN Tail(rest) ELSE <<>>
        hasFrac == frac # <<>> /\ Head(frac) \in DigitChars
        tenths == 10 * whole + (IF hasFrac THEN DigitValue(Head(frac)) ELSE 0)
    IN IF ~hasWhole /\ ~hasFrac THEN NaN
       ELSE IF neg THEN Num(0 - tenths)
       ELSE Num(tenths)

\* String.prototype.trim on the model's strings, whose only white space is " "
RECURSIVE TrimEnd(_)
TrimEnd(str) ==
    IF str # <<>> /\ str[Len(str)] = " "
    THEN TrimEnd(SubSeq(str, 1, Len(str) - 1)) ELSE str
trim(str) == TrimEnd(SkipSpaces(str))

\* a slip: only what does not parse is rejected
QuantityRejectedWhenNaN(quantity) == quantity = NaN

\* the check of updateCartQuantity: isNaN(quantity) || quantity < 1
QuantityRejected(quantity) == quantity = NaN \/ quantity[1] < 1

\* what a user can leave in a quantity field
QtyInputs ==
    {<<"2">>, <<"0">>, <<"-", "1">>, <<"a">>, <<>>, <<" ", "1", ".", "5">>}

(***************************************************************************)
(* saveOrder invocations                                                   *)
(***************************************************************************)
\* pc: "idle" or "awaiting" (a POST /orders/ is in flight)
\* keys: the keys the for-in loop has still to visit
\* detached: `cart` was reassigned since the loop began, so the loop walks
\*           the old object while its body reads the new one
\* sent: the POST bodies sent so far; start: the cart when the handler began
\* interleaved: the cart changed while the invocation was awaiting (sent and
\*              start are history, kept only as long as it did not)
\* outcome: "none", "empty", "success", "post_failed", "type_error"
IdleSave ==
    [pc |-> "idle", keys |-> <<>>, detached |-> FALSE,
     sent |-> <<>>, start |-> EmptyCart, interleaved |-> FALSE, outcome |-> "none"]

DigitChar(d) ==
    CASE d = 0 -> "0" [] d = 1 -> "1" [] d = 2 -> "2" [] d = 3 -> "3"
      [] d = 4 -> "4" [] d = 5 -> "5" [] d = 6 -> "6" [] d = 7 -> "7"
      [] d = 8 -> "8" [] d = 9 -> "9"

\* the property key of a supplier id, as for-in yields it: its decimal string
RECURSIVE KeyString(_)
KeyString(n) ==
    IF n < 10 THEN <<DigitChar(n)>>
    ELSE KeyString(n \div 10) \o <<DigitChar(n % 10)>>

\* the step completed invocation sv with the outcome
Finished(ev, sv, outcome) ==
    [ev EXCEPT !.run = [sent |-> sv.sent, start |-> sv.start,
                        interleaved |-> sv.interleaved, outcome |-> outcome]]

\* the object literal saveOrder builds from a line item
PostItem(item) ==
    [product_id |-> item.product_id,
     internal_price |-> item.internal_price,
     tax_included_price |-> item.tax_included_price,
     quantity |-> item.quantity,
     muted |-> item.muted]

\* a slip: the hidden (muted) items are left out of the order
PostItemsNotMuted(items) ==
    LET shown == SelectSeq(items, LAMBDA item : ~item.muted)
    IN [j \in 1..Len(shown) |-> PostItem(shown[j])]

\* group.items.map(...) of saveOrder
PostItems(items) == [j \in 1..Len(items) |-> PostItem(items[j])]

\* the body of one POST /orders/
PostBody(supplierId, items) ==
    [supplier_id |-> parseInt(KeyString(supplierId)), items |-> PostItems(items)]

\* the for-in loop skips a key that was deleted from the object it walks
RECURSIVE LiveKeys(_, _)
LiveKeys(keys, present) ==
    IF keys = <<>> THEN <<>>
    ELSE IF Head(keys) \in present THEN keys
    ELSE LiveKeys(Tail(keys), present)

\* the keys invocation sv still visits, the deleted ones at the front dropped
RemainingKeys(sv, c) ==
    IF sv.detached THEN sv.keys ELSE LiveKeys(sv.keys, DOMAIN c)

\* the other invocations keep walking the object `cart` named before `cart = {}`
Detach(sv, c) ==
    IF sv.pc = "awaiting" /\ ~sv.detached
    THEN [sv EXCEPT !.detached = TRUE,
                    !.keys = SelectSeq(sv.keys, LAMBDA k : k \in DOMAIN c)]
    ELSE sv

\* history: note on every awaiting invocation that the cart changed
MarkChanged(svs, c, c2) ==
    [i \in DOMAIN svs |->
        IF svs[i].pc = "awaiting" /\ c # c2
        THEN [svs[i] EXCEPT !.interleaved = TRUE, !.start = EmptyCart,
                            !.sent = <<>>]
        ELSE svs[i]]

(***************************************************************************)
(* initUI and the product table                                            *)
(***************************************************************************)
\* style.display before any script ran: whatever the page's markup says
DefaultUi ==
    [cartBtn |-> "default", statisticsNav |-> "default",
     productsActions |-> "default", servicesActions |-> "default",
     usersManagementCard |-> "default", internalPriceHeader |-> "default"]

\* initUI: the display values it sets; u is the display before
initUI(user, u) ==
    LET t == user.user_type
    IN [cartBtn |-> IF t = "gongyingshang" THEN "none" ELSE "inline-flex",
        statisticsNav |-> IF t = "gongyingshang" THEN "none"
                          ELSE IF t = "normal" THEN "none"
                          ELSE "flex",
        productsActions |-> IF t = "admin" \/ t = "gongyingshang" THEN "flex"
                            ELSE u.productsActions,
        servicesActions |-> IF t = "gongyingshang" THEN "flex"
                            ELSE u.servicesActions,
        usersManagementCard |-> IF t = "admin" THEN "block"
                                ELSE u.usersManagementCard,
        internalPriceHeader |-> IF t = "gongyingshang" \/ t = "normal"
                                THEN "none" ELSE "table-cell"]

\* a table cell that is not rendered, and one that shows a nullable price
\* ('-' for null)
NoCell == [rendered |-> FALSE, price |-> NULL]
Cell(price) == [rendered |-> TRUE, price |-> price]

\* the internal-price cell of a product row
ProductInternalCell(user, price) ==
    IF user.user_type # "supplier" THEN Cell(price) ELSE NoCell

\* the buttons of a product row
ProductActions(user) ==
    (IF user.user_type # "supplier" THEN {"add"} ELSE {}) \cup {"edit", "delete"}

\* one row of renderProductsTable
ProductRow(user, p) ==
    [id |-> p, actions |-> ProductActions(user),
     internal |-> ProductInternalCell(user, ProductInternalPrice(p)),
     tax |-> Cell(Num(ProductTaxPrice(p)))]

\* renderProductsTable(products), products given by their ids
renderProductsTable(user, products) ==
    [n \in 1..Len(products) |-> ProductRow(user, products[n])]

NoDialog == [h |-> "none", id |-> 0, status |-> "none"]

\* a modal built by createModal: its element id, whether a submit handler is
\* bound to its form, the record id the handler was bound with (0: null) and
\* the status of the record the form was built from ("none": no record)
Modal(id, bound, arg, status) ==
    [id |-> id, bound |-> bound, arg |-> arg, status |-> status]

(***************************************************************************)
(* Cart handlers                                                           *)
(***************************************************************************)
\* the cart button of initUI, or the mobile cart button
openCartModal(mobile) ==
    /\ phase = "main"
    /\ cartModal' = [open |-> TRUE, mobile |-> mobile, rows |-> RenderedRows(cart)]
    /\ lastEvent' = Event(FALSE, <<>>)
    /\ UNCHANGED <<userVars, viewVars, cart, badge, adds, saves, ordersPage, reqs>>

\* the close button createModal puts in the header
closeCartModal ==
    /\ cartModal.open
    /\ cartModal' = ClosedModal
    /\ lastEvent' = Event(FALSE, <<>>)
    /\ UNCHANGED <<userVars, viewVars, cart, badge, adds, saves, ordersPage, reqs>>

\* addProductToCart up to its await; the button is rendered by
\* renderProductsTable for every user type but the supplier
addProductToCart(productId) ==
    /\ phase = "main"
    /\ \E n \in DOMAIN productsTable :
          productsTable[n].id = productId /\ "add" \in productsTable[n].actions
    /\ InFlight < MaxInFlight
    /\ adds' = Append(adds, productId)
    /\ lastEvent' = Event(FALSE, <<>>)
    /\ UNCHANGED <<userVars, viewVars, cart, badge, cartModal, saves, ordersPage, reqs>>

\* GET /products/{id} answered: the rest of the try block
addProductToCartOk(i) ==
    /\ i \in DOMAIN adds
    /\ LET productId == adds[i]
           product == ProductResponse(productId)
           newCart == CartAfterAdd(cart, productId, product)
       IN /\ \A s \in DOMAIN newCart : \A j \in DOMAIN newCart[s] :
                newCart[s][j].quantity <= MaxQty
          /\ cart' = newCart
          /\ badge' = updateCartBadge(newCart)
          /\ saves' = MarkChanged(saves, cart, newCart)
    /\ adds' = Splice(adds, i)
    /\ lastEvent' = Event(FALSE,
                          <<Msg("success", "added to cart", FALSE)>>)
    /\ UNCHANGED <<userVars, viewVars, cartModal, ordersPage, reqs>>

\* GET /products/{id} rejected: the catch block
addProductToCartFail(i) ==
    /\ i \in DOMAIN adds
    /\ adds' = Splice(adds, i)
    /\ lastEvent' = Event(TRUE,
                          <<Msg("error", "add to cart failed", TRUE)>>)
    /\ UNCHANGED <<userVars, viewVars, cart, badge, cartModal, saves, ordersPage, reqs>>

\* a row (supplierId, index) with its buttons is in the open modal
RowRendered(supplierId, index) ==
    /\ cartModal.open
    /\ supplierId \in DOMAIN cartModal.rows
    /\ index \in 1..cartModal.rows[supplierId]

removeFromCart(supplierId, index) ==
    /\ RowRendered(supplierId, index)
    /\ LET newCart == CartAfterRemove(cart, supplierId, index)
       IN /\ cart' = newCart
          /\ badge' = updateCartBadge(newCart)
          /\ cartModal' = refreshCartModal(cartModal, newCart)
          /\ saves' = MarkChanged(saves, cart, newCart)
    /\ lastEvent' = Event(FALSE, <<>>)
    /\ UNCHANGED <<userVars, viewVars, adds, ordersPage, reqs>>

\* a slip: every item of the group is toggled
toggleMuteOfGroup(supplierId, index) ==
    /\ RowRendered(supplierId, index)
    /\ LET newCart == [cart EXCEPT ![supplierId] =
                          [j \in DOMAIN @ |-> [@[j] EXCEPT !.muted = ~@]]]
       IN /\ cart' = newCart
          /\ badge' = updateCartBadge(newCart)
          /\ cartModal' = refreshCartModal(cartModal, newCart)
          /\ saves' = MarkChanged(saves, cart, newCart)
    /\ lastEvent' = Event(FALSE, <<>>)
    /\ UNCHANGED <<userVars, viewVars, adds, ordersPage, reqs>>

\* toggleMute: the flag is flipped, then refreshCartModal
toggleMute(supplierId, index) ==
    /\ RowRendered(supplierId, index)
    /\ LET newCart == [cart EXCEPT ![supplierId][index].muted = ~@]
       IN /\ cart' = newCart
          /\ badge' = updateCartBadge(newCart)
          /\ cartModal' = refreshCartModal(cartModal, newCart)
          /\ saves' = MarkChanged(saves, cart, newCart)
    /\ lastEvent' = Event(FALSE, <<>>)
    /\ UNCHANGED <<userVars, viewVars, adds, ordersPage, reqs>>

\* the common part of updateCartQuantity and updateCartQuantityFromInput
SetQuantityFromInput(supplierId, index, raw) ==
    LET quantity == parseInt(raw)
    IN IF QuantityRejected(quantity)
       THEN /\ lastEvent' = Event(FALSE,
                                  <<Msg("error", "quantity must be > 0", FALSE)>>)
            /\ UNCHANGED <<cart, badge, saves>>
       ELSE LET newCart == [cart EXCEPT ![supplierId][index].quantity = quantity[1]]
            IN /\ quantity[1] <= MaxQty
               /\ cart' = newCart
               /\ badge' = updateCartBadge(newCart)
               /\ saves' = MarkChanged(saves, cart, newCart)
               /\ lastEvent' = Event(FALSE, <<>>)

\* onblur of the quantity field of the table layout
updateCartQuantity(supplierId, index, raw) ==
    /\ RowRendered(supplierId, index)
    /\ ~cartModal.mobile
    /\ SetQuantityFromInput(supplierId, index, raw)
    /\ UNCHANGED <<userVars, viewVars, cartModal, adds, ordersPage, reqs>>

\* onchange of the quantity field of the card layout
updateCartQuantityFromInput(supplierId, index, raw) ==
    /\ RowRendered(supplierId, index)
    /\ cartModal.mobile
    /\ SetQuantityFromInput(supplierId, index, raw)
    /\ UNCHANGED <<userVars, viewVars, cartModal, adds, ordersPage, reqs>>

\* the - and + buttons of the card layout
adjustQuantity(supplierId, index, delta) ==
    /\ RowRendered(supplierId, index)
    /\ cartModal.mobile
    /\ LET newQuantity == cart[supplierId][index].quantity + delta
       IN IF newQuantity < 1
          THEN /\ lastEvent' = Event(FALSE,
                                     <<Msg("error", "quantity below 1", FALSE)>>)
               /\ UNCHANGED <<cart, badge, saves>>
          ELSE LET newCart == [cart EXCEPT ![supplierId][index].quantity = newQuantity]
               IN /\ newQuantity <= MaxQty
                  /\ cart' = newCart
                  /\ badge' = updateCartBadge(newCart)
                  /\ saves' = MarkChanged(saves, cart, newCart)
                  /\ lastEvent' = Event(FALSE, <<>>)
    /\ UNCHANGED <<userVars, viewVars, cartModal, adds, ordersPage, reqs>>

\* loadOrders(page) up to its await
IssueLoadOrders(page) ==
    /\ ordersPage' = page
    /\ reqs' = Issue(reqs, "loadOrders", "GET /orders/", page)

\* saveOrder up to its first await; the save button is part of the body
\* renderCartContent builds for a cart that is not empty
saveOrder(i) ==
    /\ cartModal.open
    /\ DOMAIN cartModal.rows # {}
    /\ saves[i].pc = "idle"
    /\ \A j \in 1..(i - 1) : saves[j].pc # "idle"
    /\ InFlight < MaxInFlight
    /\ IF DOMAIN cart = {}
       THEN /\ saves' = saves
            /\ lastEvent' = Finished(Event(FALSE,
                                  <<Msg("warning", "cart is empty", FALSE)>>),
                                  [IdleSave EXCEPT !.start = cart], "empty")
       ELSE LET keys == SortedKeys(DOMAIN cart)
                k == Head(keys)
            IN /\ saves' = [saves EXCEPT ![i] =
                    [pc |-> "awaiting", keys |-> Tail(keys), detached |-> FALSE,
                     sent |-> <<PostBody(k, cart[k])>>, start |-> cart,
                     interleaved |-> FALSE, outcome |-> "none"]]
               /\ lastEvent' = Event(FALSE, <<>>)
    /\ UNCHANGED <<userVars, viewVars, cart, badge, cartModal, adds, ordersPage, reqs>>

\* the lines after the loop: cart = {}, updateCartBadge, closeModal, the
\* success message and the reload of the order list
saveOrderFinish(i) ==
    /\ cart' = EmptyCart
    /\ badge' = updateCartBadge(EmptyCart)
    /\ cartModal' = ClosedModal
    /\ saves' = [j \in SaveIds |->
                    IF j = i THEN IdleSave
                    ELSE Detach(MarkChanged(saves, cart, EmptyCart)[j], cart)]
    /\ lastEvent' = Finished(Event(FALSE,
                                   <<Msg("success", "order saved", FALSE)>>),
                             saves[i], "success")
    /\ IF currentPage = "orders"
       THEN IssueLoadOrders(1)
       ELSE UNCHANGED <<ordersPage, reqs>>

\* POST /orders/ answered: the next turn of the for-in loop, or the lines
\* after it
saveOrderPostOk(i) ==
    /\ saves[i].pc = "awaiting"
    /\ LET sv == saves[i]
           keys == RemainingKeys(sv, cart)
       IN IF keys = <<>>
          THEN saveOrderFinish(i)
          ELSE LET k == Head(keys)
               IN IF k \notin DOMAIN cart
                  THEN \* cart[supplierId] is undefined: group.items throws
                       /\ saves' = [saves EXCEPT ![i] = IdleSave]
                       /\ lastEvent' = Finished(Event(FALSE,
                              <<Msg("error", "save order failed", TRUE)>>),
                              sv, "type_error")
                       /\ UNCHANGED <<cart, badge, cartModal, ordersPage, reqs>>
                  ELSE /\ saves' = [saves EXCEPT ![i] =
                              [sv EXCEPT !.keys = Tail(keys),
                                         !.sent = IF sv.interleaved THEN <<>>
                                                  ELSE Append(@, PostBody(k, cart[k]))]]
                       /\ lastEvent' = Event(FALSE, <<>>)
                       /\ UNCHANGED <<cart, badge, cartModal, ordersPage, reqs>>
    /\ UNCHANGED <<userVars, viewVars, adds>>

\* a slip: the modal is closed in the catch block as well
saveOrderPostFailClosesModal(i) ==
    /\ saves[i].pc = "awaiting"
    /\ saves' = [saves EXCEPT ![i] = IdleSave]
    /\ cartModal' = ClosedModal
    /\ lastEvent' = Finished(Event(TRUE,
                                   <<Msg("error", "save order failed", TRUE)>>),
                             saves[i], "post_failed")
    /\ UNCHANGED <<userVars, viewVars, cart, badge, adds, ordersPage, reqs>>

\* POST /orders/ rejected: the catch block
saveOrderPostFail(i) ==
    /\ saves[i].pc = "awaiting"
    /\ saves' = [saves EXCEPT ![i] = IdleSave]
    /\ lastEvent' = Finished(Event(TRUE,
                                   <<Msg("error", "save order failed", TRUE)>>),
                             saves[i], "post_failed")
    /\ UNCHANGED <<userVars, viewVars, cart, badge, cartModal, adds, ordersPage, reqs>>

(***************************************************************************)
(* Page initialisation, navigation and the list loaders                    *)
(***************************************************************************)
sessionVars == <<catalogue, phase, currentUser, ui>>
pageNoVars == <<productsPage, ordersPage, servicesPage>>
tableVars == <<productsTable, ordersTable, servicesTable, usersTable>>

\* the awaited request of invocation rs[i] was answered and the invocation
\* reaches its next `await apiRequest(r)`
NextRequestBeforeAnswer(rs, i, r) == Append(rs, [rs[i] EXCEPT !.r = r])
NextRequest(rs, i, r) == [rs EXCEPT ![i] = [@ EXCEPT !.r = r]]

\* the main page's DOMContentLoaded handler up to `await window.checkAuth()`
DOMContentLoaded ==
    /\ phase = "loading"
    /\ phase' = "auth"
    /\ lastEvent' = NoEvent
    /\ UNCHANGED <<catalogue, currentUser, ui, currentPage, cartVars,
                   pageNoVars, tableVars, reqs, dialog, modals>>

\* /users/me answered with a user: initUI, initNavigation, loadProducts
checkAuthOk(user) ==
    /\ phase = "auth"
    /\ phase' = "main"
    /\ currentUser' = user
    /\ ui' = initUI(user, ui)
    /\ productsPage' = 1
    /\ reqs' = LET rs == IF user.user_type = "admin"
                         THEN Issue(reqs, "loadUsers", "GET /users/", 0)
                         ELSE reqs
               IN Issue(rs, "loadProducts", "GET /products/", 1)
    /\ lastEvent' = NoEvent
    /\ UNCHANGED <<catalogue, currentPage, cartVars, ordersPage, servicesPage,
                   tableVars, dialog, modals>>

\* /users/me rejected: checkAuth returns null and the page goes to '/'
checkAuthFail ==
    /\ phase = "auth"
    /\ phase' = "redirected"
    /\ lastEvent' = Event(TRUE, <<>>)
    /\ UNCHANGED <<catalogue, currentUser, ui, currentPage, cartVars,
                   pageNoVars, tableVars, reqs, dialog, modals>>

\* the requests switchPage(page) starts
PageLoads(rs, page) ==
    CASE page = "products" -> Issue(rs, "loadProducts", "GET /products/", 1)
      [] page = "orders" -> Issue(rs, "loadOrders", "GET /orders/", 1)
      [] page = "services" ->
            Issue(Issue(rs, "loadServiceSuppliers", "GET /api/suppliers/", 0),
                  "loadServices", "GET /services/", 1)
      [] page = "statistics" -> Issue(rs, "loadStatistics", "GET /statistics/", 0)
      [] OTHER -> rs

switchPage(page) ==
    /\ phase = "main"
    /\ InFlight + (Len(PageLoads(reqs, page)) - Len(reqs)) <= MaxInFlight
    /\ currentPage' = page
    /\ reqs' = PageLoads(reqs, page)
    /\ productsPage' = IF page = "products" THEN 1 ELSE productsPage
    /\ ordersPage' = IF page = "orders" THEN 1 ELSE ordersPage
    /\ servicesPage' = IF page = "services" THEN 1 ELSE servicesPage
    /\ lastEvent' = NoEvent
    /\ UNCHANGED <<sessionVars, cartVars, tableVars, dialog, modals>>

\* the request rs[i] of async function h is awaiting its response
Awaits(i, h, r) ==
    /\ phase = "main"
    /\ i \in DOMAIN reqs
    /\ reqs[i].h = h
    /\ reqs[i].r = r

\* the catch block of a handler whose awaited request i was rejected showed
\* the messages of `shown` and the handler returned
Rejected(i, shown) ==
    /\ reqs' = Without(reqs, i)
    /\ lastEvent' = Event(TRUE, shown)
    /\ UNCHANGED <<sessionVars, currentPage, cartVars, pageNoVars, tableVars,
                   dialog, modals>>

loadProductsOk(i, items) ==
    /\ Awaits(i, "loadProducts", "GET /products/")
    /\ productsTable' = renderProductsTable(currentUser, items)
    /\ reqs' = Without(reqs, i)
    /\ lastEvent' = NoEvent
    /\ UNCHANGED <<sessionVars, currentPage, cartStateVars, pageNoVars, ordersTable,
                   servicesTable, usersTable, dialog, modals>>

loadProductsFail(i) ==
    /\ Awaits(i, "loadProducts", "GET /products/")
    /\ Rejected(i, <<Msg("error", "load products failed", TRUE)>>)

Statuses == {"draft", "submitted", "confirmed", "invalid"}

\* an order of a /orders/ response
Order(id, status) == [id |-> id, status |-> status]

\* the buttons of an order row; a variant that ignores the order's status
OrderActionsAnyStatus(user, order) ==
    {"view"} \cup (IF user.user_type = "supplier" THEN {"confirm"}
                   ELSE {"submit", "delete"})
OrderActions(user, order) ==
    {"view"} \cup
    (IF user.user_type = "supplier"
     THEN (IF order.status = "submitted" THEN {"confirm"} ELSE {})
     ELSE (IF order.status = "draft" THEN {"submit"} ELSE {}) \cup {"delete"})

\* renderOrdersTable(orders)
renderOrdersTable(user, orders) ==
    [n \in 1..Len(orders) |->
        [id |-> orders[n].id, status |-> orders[n].status,
         actions |-> OrderActions(user, orders[n])]]

loadOrdersOk(i, items) ==
    /\ Awaits(i, "loadOrders", "GET /orders/")
    /\ ordersTable' = renderOrdersTable(currentUser, items)
    /\ reqs' = Without(reqs, i)
    /\ lastEvent' = NoEvent
    /\ UNCHANGED <<sessionVars, currentPage, cartStateVars, pageNoVars, productsTable,
                   servicesTable, usersTable, dialog, modals>>

loadOrdersFail(i) ==
    /\ Awaits(i, "loadOrders", "GET /orders/")
    /\ Rejected(i, <<Msg("error", "load orders failed", TRUE)>>)

\* a service record of a /services/ response
Service(id, status, user_id) == [id |-> id, status |-> status, user_id |-> user_id]

\* the buttons of a service row; a variant that omits the owner test
ServiceActionsAnyOwner(user, service) ==
    {"view", "delete"}
    \cup (IF user.user_type = "supplier" /\ service.status = "draft"
          THEN {"submit"} ELSE {})
    \cup (IF user.user_type \in {"normal", "admin"} /\ service.status = "submitted"
          THEN {"confirm"} ELSE {})
ServiceActions(user, service) ==
    {"view", "delete"}
    \cup (IF user.user_type = "supplier" /\ service.status = "draft"
          THEN {"submit"} ELSE {})
    \cup (IF /\ (user.user_type = "normal" \/ user.user_type = "admin")
             /\ service.status = "submitted"
             /\ service.user_id = user.id
          THEN {"confirm"} ELSE {})

\* renderServicesTable(services)
renderServicesTable(user, services) ==
    [n \in 1..Len(services) |->
        [id |-> services[n].id, status |-> services[n].status,
         user_id |-> services[n].user_id,
         actions |-> ServiceActions(user, services[n])]]

loadServicesOk(i, items) ==
    /\ Awaits(i, "loadServices", "GET /services/")
    /\ servicesTable' = renderServicesTable(currentUser, items)
    /\ reqs' = Without(reqs, i)
    /\ lastEvent' = NoEvent
    /\ UNCHANGED <<sessionVars, currentPage, cartStateVars, pageNoVars, productsTable,
                   ordersTable, usersTable, dialog, modals>>

loadServicesFail(i) ==
    /\ Awaits(i, "loadServices", "GET /services/")
    /\ Rejected(i, <<Msg("error", "load services failed", TRUE)>>)

\* the supplier filter of the services page is filled; it is not modelled
loadServiceSuppliersOk(i) ==
    /\ Awaits(i, "loadServiceSuppliers", "GET /api/suppliers/")
    /\ reqs' = Without(reqs, i)
    /\ lastEvent' = NoEvent
    /\ UNCHANGED <<sessionVars, currentPage, cartVars, pageNoVars, tableVars,
                   dialog, modals>>

\* the catch block only writes to the console
loadServiceSuppliersFail(i) ==
    /\ Awaits(i, "loadServiceSuppliers", "GET /api/suppliers/")
    /\ Rejected(i, <<>>)

\* the statistics table is rendered; it is not modelled
loadStatisticsOk(i) ==
    /\ Awaits(i, "loadStatistics", "GET /statistics/")
    /\ reqs' = Without(reqs, i)
    /\ lastEvent' = NoEvent
    /\ UNCHANGED <<sessionVars, currentPage, cartVars, pageNoVars, tableVars,
                   dialog, modals>>

loadStatisticsFail(i) ==
    /\ Awaits(i, "loadStatistics", "GET /statistics/")
    /\ Rejected(i, <<Msg("error", "load statistics failed", TRUE)>>)

\* renderUsersTable(users), users given by their ids
renderUsersTable(users) ==
    [n \in 1..Len(users) |->
        [id |-> users[n], actions |-> {"password", "contact", "delete"}]]

loadUsersOk(i, users) ==
    /\ Awaits(i, "loadUsers", "GET /users/")
    /\ usersTable' = renderUsersTable(users)
    /\ reqs' = Without(reqs, i)
    /\ lastEvent' = NoEvent
    /\ UNCHANGED <<sessionVars, currentPage, cartVars, pageNoVars, productsTable,
                   ordersTable, servicesTable, dialog, modals>>

loadUsersFail(i) ==
    /\ Awaits(i, "loadUsers", "GET /users/")
    /\ Rejected(i, <<Msg("error", "load users failed", TRUE)>>)

(***************************************************************************)
(* logout, editUserContact, openProductModal                               *)
(***************************************************************************)
logout ==
    /\ phase = "main"
    /\ InFlight < MaxInFlight
    /\ reqs' = Issue(reqs, "logout", "POST /users/logout", 0)
    /\ lastEvent' = NoEvent
    /\ UNCHANGED <<sessionVars, currentPage, cartVars, pageNoVars, tableVars,
                   dialog, modals>>

\* window.location.href = '/': the browser leaves the main page, whose
\* document and script state are discarded
logoutOk(i) ==
    /\ Awaits(i, "logout", "POST /users/logout")
    /\ phase' = "redirected"
    /\ currentUser' = NoUser
    /\ currentPage' = "products"
    /\ ui' = DefaultUi
    /\ cart' = EmptyCart
    /\ badge' = {}
    /\ cartModal' = ClosedModal
    /\ adds' = <<>>
    /\ saves' = [j \in SaveIds |-> IdleSave]
    /\ posted' = [j \in SaveIds |-> <<>>]
    /\ modalBody' = NoBody
    /\ received' = NoCall
    /\ pagination' = [l \in Lists |-> NoPagination]
    /\ productsPage' = 1
    /\ ordersPage' = 1
    /\ servicesPage' = 1
    /\ productsTable' = <<>>
    /\ ordersTable' = <<>>
    /\ servicesTable' = <<>>
    /\ usersTable' = <<>>
    /\ reqs' = <<>>
    /\ dialog' = NoDialog
    /\ modals' = {}
    /\ lastEvent' = NoEvent
    /\ UNCHANGED catalogue

\* the catch block only writes to the console
logoutFail(i) ==
    /\ Awaits(i, "logout", "POST /users/logout")
    /\ Rejected(i, <<>>)

\* the contact button of a rendered user row
editUserContact(userId) ==
    /\ phase = "main"
    /\ \E n \in DOMAIN usersTable :
          usersTable[n].id = userId /\ "contact" \in usersTable[n].actions
    /\ InFlight < MaxInFlight
    /\ reqs' = Issue(reqs, "editUserContact", "GET /users/", userId)
    /\ lastEvent' = NoEvent
    /\ UNCHANGED <<sessionVars, currentPage, cartVars, pageNoVars, tableVars,
                   dialog, modals>>

\* users: the ids of the response
editUserContactOk(i, users) ==
    /\ Awaits(i, "editUserContact", "GET /users/")
    /\ reqs' = Without(reqs, i)
    /\ IF \E n \in DOMAIN users : users[n] = reqs[i].arg
       THEN /\ modals' = modals \cup {Modal("contactModal", TRUE, reqs[i].arg, "none")}
            /\ lastEvent' = NoEvent
       ELSE /\ modals' = modals
            /\ lastEvent' = Event(FALSE, <<Msg("error", "no such user", FALSE)>>)
    /\ UNCHANGED <<sessionVars, currentPage, cartVars, pageNoVars, tableVars,
                   dialog>>

\* the await is outside any try: the rejection is not handled
editUserContactFail(i) ==
    /\ Awaits(i, "editUserContact", "GET /users/")
    /\ Rejected(i, <<>>)

\* openProductModal(productId), 0 for null; editProduct(productId) calls it
openProductModal(productId) ==
    /\ phase = "main"
    /\ productId # 0 =>
          \E n \in DOMAIN productsTable :
              productsTable[n].id = productId /\ "edit" \in productsTable[n].actions
    /\ InFlight < MaxInFlight
    /\ reqs' = Issue(reqs, "openProductModal",
                     IF productId # 0 THEN "GET /products/id"
                     ELSE "GET /api/suppliers/", productId)
    /\ lastEvent' = NoEvent
    /\ UNCHANGED <<sessionVars, currentPage, cartVars, pageNoVars, tableVars,
                   dialog, modals>>

openProductModalProductOk(i) ==
    /\ Awaits(i, "openProductModal", "GET /products/id")
    /\ reqs' = NextRequest(reqs, i, "GET /api/suppliers/")
    /\ lastEvent' = NoEvent
    /\ UNCHANGED <<sessionVars, currentPage, cartVars, pageNoVars, tableVars,
                   dialog, modals>>

openProductModalProductFail(i) ==
    /\ Awaits(i, "openProductModal", "GET /products/id")
    /\ Rejected(i, <<Msg("error", "load product failed", TRUE)>>)

\* the form is built, the modal opened and saveProduct bound to the form;
\* failed: the supplier list was rejected, which the catch block passes over
openProductModalSuppliersDone(i, failed) ==
    /\ Awaits(i, "openProductModal", "GET /api/suppliers/")
    /\ reqs' = Without(reqs, i)
    /\ modals' = modals \cup {Modal("productModal", TRUE, reqs[i].arg, "none")}
    /\ lastEvent' = Event(failed, <<>>)
    /\ UNCHANGED <<sessionVars, currentPage, cartVars, pageNoVars, tableVars,
                   dialog>>

\* closeModal(id) of utils.js: the modal's close button or its backdrop
closeModal(id) ==
    /\ phase = "main"
    /\ \E m \in modals : m.id = id
    /\ modals' = {m \in modals : m.id # id}
    /\ lastEvent' = NoEvent
    /\ UNCHANGED <<sessionVars, currentPage, cartVars, pageNoVars, tableVars,
                   reqs, dialog>>

(***************************************************************************)
(* The main page from its load on                                          *)
(***************************************************************************)
InitPage ==
    /\ catalogue = <<2, 1>>
    /\ phase = "loading"
    /\ currentUser = NoUser
    /\ currentPage = "products"
    /\ cart = EmptyCart
    /\ badge = {}
    /\ cartModal = ClosedModal
    /\ adds = <<>>
    /\ saves = [i \in SaveIds |-> IdleSave]
    /\ posted = [i \in SaveIds |-> <<>>]
    /\ modalBody = NoBody
    /\ received = NoCall
    /\ pagination = [l \in Lists |-> NoPagination]
    /\ ordersPage = 1
    /\ reqs = <<>>
    /\ lastEvent = NoEvent
    /\ ui = DefaultUi
    /\ productsPage = 1
    /\ servicesPage = 1
    /\ productsTable = <<>>
    /\ ordersTable = <<>>
    /\ servicesTable = <<>>
    /\ usersTable = <<>>
    /\ dialog = NoDialog
    /\ modals = {}

\* the responses of the list endpoints
ProductLists == {<<1, 2>>}
OrderLists == {<<Order(1, "draft"), Order(2, "submitted")>>}
ServiceLists == {<<Service(1, "draft", 1), Service(2, "submitted", 1)>>}
UserLists == {<<1>>}

NextPage ==
    \/ DOMContentLoaded
    \/ \E t \in UserTypes : checkAuthOk(User(t))
    \/ checkAuthFail
    \/ \E page \in Pages : switchPage(page)
    \/ \E i \in DOMAIN reqs : \E items \in ProductLists : loadProductsOk(i, items) /\ UNCHANGED pagination
    \/ \E i \in DOMAIN reqs : loadProductsFail(i)
    \/ \E i \in DOMAIN reqs : \E items \in OrderLists : loadOrdersOk(i, items) /\ UNCHANGED pagination
    \/ \E i \in DOMAIN reqs : loadOrdersFail(i)
    \/ \E i \in DOMAIN reqs : \E items \in ServiceLists : loadServicesOk(i, items) /\ UNCHANGED pagination
    \/ \E i \in DOMAIN reqs : loadServicesFail(i)
    \/ \E i \in DOMAIN reqs : loadServiceSuppliersOk(i)
    \/ \E i \in DOMAIN reqs : loadServiceSuppliersFail(i)
    \/ \E i \in DOMAIN reqs : loadStatisticsOk(i)
    \/ \E i \in DOMAIN reqs : loadStatisticsFail(i)
    \/ \E i \in DOMAIN reqs : \E users \in UserLists : loadUsersOk(i, users)
    \/ \E i \in DOMAIN reqs : loadUsersFail(i)
    \/ logout
    \/ \E i \in DOMAIN reqs : logoutOk(i)
    \/ \E i \in DOMAIN reqs : logoutFail(i)
    \/ \E u \in {1} : editUserContact(u)
    \/ \E i \in DOMAIN reqs : \E users \in UserLists \cup {<<>>} :
            editUserContactOk(i, users)
    \/ \E i \in DOMAIN reqs : editUserContactFail(i)
    \/ \E p \in {0, 1} : openProductModal(p)
    \/ \E i \in DOMAIN reqs : openProductModalProductOk(i)
    \/ \E i \in DOMAIN reqs : openProductModalProductFail(i)
    \/ \E i \in DOMAIN reqs : \E failed \in BOOLEAN :
            openProductModalSuppliersDone(i, failed)
    \/ \E id \in {"productModal", "contactModal"} : closeModal(id)

SpecPage == InitPage /\ [][NextPage]_vars

(***************************************************************************)
(* The order list: submitOrder, confirmOrder, deleteOrder                  *)
(***************************************************************************)
\* the request a confirmed order handler sends
OrderRequest(h) ==
    CASE h = "submitOrder" -> "PUT /orders/id/status?new_status=submitted"
      [] h = "confirmOrder" -> "PUT /orders/id/status?new_status=confirmed"
      [] h = "deleteOrder" -> "DELETE /orders/id"

\* the button of an order row
OrderButton(h) ==
    CASE h = "submitOrder" -> "submit"
      [] h = "confirmOrder" -> "confirm"
      [] h = "deleteOrder" -> "delete"

\* a slip: the request is sent by the click, no dialog is shown
OrderClickSendsAtOnce(h, n) ==
    /\ phase = "main"
    /\ dialog = NoDialog
    /\ n \in DOMAIN ordersTable
    /\ OrderButton(h) \in ordersTable[n].actions
    /\ InFlight < MaxInFlight
    /\ reqs' = IssueSeen(reqs, h, OrderRequest(h), ordersTable[n].id,
                         ordersTable[n].status)
    /\ lastEvent' = NoEvent
    /\ UNCHANGED <<sessionVars, currentPage, cartVars, pageNoVars, tableVars,
                   dialog, modals>>

\* a click on button h of the n-th order row: the handler awaits confirmDialog
OrderClick(h, n) ==
    /\ phase = "main"
    /\ dialog = NoDialog
    /\ n \in DOMAIN ordersTable
    /\ OrderButton(h) \in ordersTable[n].actions
    /\ dialog' = [h |-> h, id |-> ordersTable[n].id, status |-> ordersTable[n].status]
    /\ lastEvent' = NoEvent
    /\ UNCHANGED <<sessionVars, currentPage, cartVars, pageNoVars, tableVars,
                   reqs, modals>>

submitOrder(n) == OrderClick("submitOrder", n)
confirmOrder(n) == OrderClick("confirmOrder", n)
deleteOrder(n) == OrderClick("deleteOrder", n)

\* confirmDialog resolved: the handler returns, or sends its request
OrderDialogAnswer(yes) ==
    /\ phase = "main"
    /\ dialog.h \in {"submitOrder", "confirmOrder", "deleteOrder"}
    /\ yes => InFlight < MaxInFlight
    /\ dialog' = NoDialog
    /\ reqs' = IF yes
               THEN IssueSeen(reqs, dialog.h, OrderRequest(dialog.h), dialog.id,
                              dialog.status)
               ELSE reqs
    /\ lastEvent' = NoEvent
    /\ UNCHANGED <<sessionVars, currentPage, cartVars, pageNoVars, tableVars,
                   modals>>

\* the request succeeded: success message, then loadOrders(ordersPage)
OrderRequestOk(i) ==
    /\ phase = "main"
    /\ i \in DOMAIN reqs
    /\ reqs[i].h \in {"submitOrder", "confirmOrder", "deleteOrder"}
    /\ reqs' = Issue(Without(reqs, i), "loadOrders", "GET /orders/", ordersPage)
    /\ lastEvent' = Event(FALSE, <<Msg("success", reqs[i].h, FALSE)>>)
    /\ UNCHANGED <<sessionVars, currentPage, cartVars, pageNoVars, tableVars,
                   dialog, modals>>

OrderRequestFail(i) ==
    /\ phase = "main"
    /\ i \in DOMAIN reqs
    /\ reqs[i].h \in {"submitOrder", "confirmOrder", "deleteOrder"}
    /\ Rejected(i, <<Msg("error", reqs[i].h, TRUE)>>)

\* the pagination bars after the first loadProducts of the page
PaginationAfterInit ==
    [l \in Lists |-> IF l = "products"
                     THEN renderPagination(1, productsPageSize, Len(<<1, 2>>))
                     ELSE NoPagination]

\* the main page after its initialisation, the orders page just selected
InitLists(users, page, loads) ==
    /\ catalogue = <<2, 1>>
    /\ phase = "main"
    /\ currentUser \in users
    /\ currentPage = page
    /\ cart = EmptyCart
    /\ badge = {}
    /\ cartModal = ClosedModal
    /\ adds = <<>>
    /\ saves = [i \in SaveIds |-> IdleSave]
    /\ posted = [i \in SaveIds |-> <<>>]
    /\ modalBody = NoBody
    /\ received = NoCall
    /\ pagination = PaginationAfterInit
    /\ ordersPage = 1
    /\ reqs = loads
    /\ lastEvent = NoEvent
    /\ ui = initUI(currentUser, DefaultUi)
    /\ productsPage = 1
    /\ servicesPage = 1
    /\ productsTable = renderProductsTable(currentUser, <<1, 2>>)
    /\ ordersTable = <<>>
    /\ servicesTable = <<>>
    /\ usersTable = IF currentUser.user_type = "admin"
                    THEN renderUsersTable(<<1>>) ELSE <<>>
    /\ dialog = NoDialog
    /\ modals = {}

Users == {User(t) : t \in UserTypes}

InitOrders == InitLists(Users, "orders", PageLoads(<<>>, "orders"))

\* the order lists the backend answers with
OrderResponses ==
    {<<>>} \cup {<<Order(1, s)>> : s \in Statuses}
           \cup {<<Order(1, "draft"), Order(2, "submitted")>>}

NextOrders ==
    \/ switchPage("orders")
    \/ \E i \in DOMAIN reqs : \E items \in OrderResponses : loadOrdersOk(i, items) /\ UNCHANGED pagination
    \/ \E i \in DOMAIN reqs : loadOrdersFail(i)
    \/ \E n \in DOMAIN ordersTable : submitOrder(n)
    \/ \E n \in DOMAIN ordersTable : confirmOrder(n)
    \/ \E n \in DOMAIN ordersTable : deleteOrder(n)
    \/ \E yes \in BOOLEAN : OrderDialogAnswer(yes)
    \/ \E i \in DOMAIN reqs : OrderRequestOk(i)
    \/ \E i \in DOMAIN reqs : OrderRequestFail(i)

SpecOrders == InitOrders /\ [][NextOrders]_vars

(***************************************************************************)
(* The service list: submitService, confirmService, deleteService          *)
(***************************************************************************)
ServiceRequest(h) ==
    CASE h = "submitService" -> "PUT /services/id/status?new_status=submitted"
      [] h = "confirmService" -> "PUT /services/id/status?new_status=confirmed"
      [] h = "deleteService" -> "DELETE /services/id"

ServiceButton(h) ==
    CASE h = "submitService" -> "submit"
      [] h = "confirmService" -> "confirm"
      [] h = "deleteService" -> "delete"

\* a click on button h of the n-th service row: the handler awaits
\* confirmDialog
ServiceClick(h, n) ==
    /\ phase = "main"
    /\ dialog = NoDialog
    /\ n \in DOMAIN servicesTable
    /\ ServiceButton(h) \in servicesTable[n].actions
    /\ dialog' = [h |-> h, id |-> servicesTable[n].id,
                  status |-> servicesTable[n].status]
    /\ lastEvent' = NoEvent
    /\ UNCHANGED <<sessionVars, currentPage, cartVars, pageNoVars, tableVars,
                   reqs, modals>>

submitService(n) == ServiceClick("submitService", n)
confirmService(n) == ServiceClick("confirmService", n)
deleteService(n) == ServiceClick("deleteService", n)

ServiceDialogAnswer(yes) ==
    /\ phase = "main"
    /\ dialog.h \in {"submitService", "confirmService", "deleteService"}
    /\ yes => InFlight < MaxInFlight
    /\ dialog' = NoDialog
    /\ reqs' = IF yes
               THEN IssueSeen(reqs, dialog.h, ServiceRequest(dialog.h), dialog.id,
                              dialog.status)
               ELSE reqs
    /\ lastEvent' = NoEvent
    /\ UNCHANGED <<sessionVars, currentPage, cartVars, pageNoVars, tableVars,
                   modals>>

\* the request succeeded: success message, then loadServices(servicesPage)
ServiceRequestOk(i) ==
    /\ phase = "main"
    /\ i \in DOMAIN reqs
    /\ reqs[i].h \in {"submitService", "confirmService", "deleteService"}
    /\ reqs' = Issue(Without(reqs, i), "loadServices", "GET /services/",
                     servicesPage)
    /\ lastEvent' = Event(FALSE, <<Msg("success", reqs[i].h, FALSE)>>)
    /\ UNCHANGED <<sessionVars, currentPage, cartVars, pageNoVars, tableVars,
                   dialog, modals>>

ServiceRequestFail(i) ==
    /\ phase = "main"
    /\ i \in DOMAIN reqs
    /\ reqs[i].h \in {"submitService", "confirmService", "deleteService"}
    /\ Rejected(i, <<Msg("error", reqs[i].h, TRUE)>>)

(***************************************************************************)
(* The service form: openServiceModal, saveService                         *)
(***************************************************************************)
\* the first request of openServiceModal(serviceId), and the one that
\* follows the service record
ServiceModalAfterRecord(user) ==
    IF user.user_type = "supplier" THEN "GET /users/me" ELSE "GET /api/suppliers/"
ServiceModalFirst(user, serviceId) ==
    IF serviceId # 0 THEN "GET /services/id" ELSE ServiceModalAfterRecord(user)

\* openServiceModal(serviceId), 0 for null
openServiceModal(serviceId) ==
    /\ phase = "main"
    /\ InFlight < MaxInFlight
    /\ reqs' = Issue(reqs, "openServiceModal",
                     ServiceModalFirst(currentUser, serviceId), serviceId)
    /\ lastEvent' = NoEvent
    /\ UNCHANGED <<sessionVars, currentPage, cartVars, pageNoVars, tableVars,
                   dialog, modals>>

\* the record arrived, with the given status
openServiceModalServiceOk(i, status) ==
    /\ Awaits(i, "openServiceModal", "GET /services/id")
    /\ reqs' = [NextRequest(reqs, i, ServiceModalAfterRecord(currentUser))
                  EXCEPT ![i].seen = status]
    /\ lastEvent' = NoEvent
    /\ UNCHANGED <<sessionVars, currentPage, cartVars, pageNoVars, tableVars,
                   dialog, modals>>

openServiceModalServiceFail(i) ==
    /\ Awaits(i, "openServiceModal", "GET /services/id")
    /\ Rejected(i, <<Msg("error", "load service failed", TRUE)>>)

\* /users/me answered for a supplier user: supplier_id is kept when it is
\* set, else the handler shows a message and returns
openServiceModalUserOk(i, supplier_id) ==
    /\ Awaits(i, "openServiceModal", "GET /users/me")
    /\ IF supplier_id # NULL
       THEN /\ currentUser' = [currentUser EXCEPT !.supplier_id = supplier_id]
            /\ reqs' = NextRequest(reqs, i, "GET /api/suppliers/")
            /\ lastEvent' = NoEvent
       ELSE /\ currentUser' = currentUser
            /\ reqs' = Without(reqs, i)
            /\ lastEvent' = Event(FALSE, <<Msg("error", "no supplier linked", FALSE)>>)
    /\ UNCHANGED <<catalogue, phase, ui, currentPage, cartVars, pageNoVars,
                   tableVars, dialog, modals>>

\* the message asks to reload the page and does not carry the error's text
openServiceModalUserFail(i) ==
    /\ Awaits(i, "openServiceModal", "GET /users/me")
    /\ Rejected(i, <<Msg("error", "user info failed, reload", FALSE)>>)

\* canEdit: a variant that lets everybody edit, then the code's
CanEditAlways(user, serviceId, status) == TRUE
CanEdit(user, serviceId, status) ==
    user.user_type = "supplier" /\ (serviceId = 0 \/ status = "draft")

\* the supplier list arrived or was rejected (the catch blocks pass over
\* it): the form is built, the modal opened, and saveService bound to the
\* form when canEdit
openServiceModalSuppliersDone(i, failed) ==
    /\ Awaits(i, "openServiceModal", "GET /api/suppliers/")
    /\ reqs' = Without(reqs, i)
    /\ modals' = modals \cup
          {Modal("serviceModal", CanEdit(currentUser, reqs[i].arg, reqs[i].seen),
                 reqs[i].arg, reqs[i].seen)}
    /\ lastEvent' = Event(failed, <<>>)
    /\ UNCHANGED <<sessionVars, currentPage, cartVars, pageNoVars, tableVars,
                   dialog>>

\* supplierId of saveService
SupplierId(user, serviceId, form) ==
    IF user.user_type = "supplier" /\ serviceId = 0
    THEN user.supplier_id
    ELSE parseInt(form.supplier_id)

\* the message saveService returns with before it sends anything, "" if none
SaveServiceRejection(user, serviceId, form) ==
    LET amount == parseFloat(form.amount)
        create == user.user_type = "supplier" /\ serviceId = 0
    IN IF amount = NaN \/ amount[1] < 0 THEN "amount invalid"
       ELSE IF create /\ user.supplier_id = NULL THEN "no supplier linked"
       ELSE IF ~create /\ parseInt(form.supplier_id) = NaN THEN "supplier id invalid"
       ELSE IF create /\ (form.user_username \in {Undefined, <<>>}
                          \/ trim(form.user_username) = <<>>)
            THEN "user name missing"
       ELSE ""

\* the body of POST /services/
ServiceData(user, serviceId, form) ==
    [supplier_id |-> SupplierId(user, serviceId, form),
     amount |-> parseFloat(form.amount),
     user_username |-> IF user.user_type = "supplier" /\ serviceId = 0
                       THEN trim(form.user_username) ELSE Undefined]

\* the submit handler of a service form, bound with m.arg as serviceId; form
\* is what getFormData reads from #serviceForm
saveService(m, form) ==
    /\ phase = "main"
    /\ m \in modals
    /\ m.id = "serviceModal"
    /\ m.bound
    /\ IF SaveServiceRejection(currentUser, m.arg, form) # ""
       THEN /\ reqs' = reqs
            /\ lastEvent' =
                  Event(FALSE, <<Msg("error",
                                     SaveServiceRejection(currentUser, m.arg, form),
                                     FALSE)>>)
       ELSE /\ InFlight < MaxInFlight
            /\ reqs' =
                  IF m.arg # 0
                  THEN Issue(reqs, "saveService", "PUT /services/id", m.arg)
                  ELSE Append(reqs,
                         [Req(Len(reqs) + 1, "saveService", "POST /services/",
                              0, "none")
                            EXCEPT !.body = ServiceData(currentUser, m.arg, form)])
            /\ lastEvent' = NoEvent
    /\ UNCHANGED <<sessionVars, currentPage, cartVars, pageNoVars, tableVars,
                   dialog, modals>>

\* success message, closeModal('serviceModal'), loadServices(servicesPage)
saveServiceOk(i) ==
    /\ phase = "main"
    /\ i \in DOMAIN reqs
    /\ reqs[i].h = "saveService"
    /\ reqs' = Issue(Without(reqs, i), "loadServices", "GET /services/",
                     servicesPage)
    /\ modals' = {m \in modals : m.id # "serviceModal"}
    /\ lastEvent' = Event(FALSE, <<Msg("success", "service saved", FALSE)>>)
    /\ UNCHANGED <<sessionVars, currentPage, cartVars, pageNoVars, tableVars,
                   dialog>>

saveServiceFail(i) ==
    /\ phase = "main"
    /\ i \in DOMAIN reqs
    /\ reqs[i].h = "saveService"
    /\ Rejected(i, <<Msg("error", "save service failed", TRUE)>>)

\* a supplier account that is not linked to a supplier
UnlinkedSupplier == [User("supplier") EXCEPT !.supplier_id = NULL]

\* the main page after its initialisation, the services page selected and
\* its supplier filter loaded
InitServices == InitLists(Users, "services", PageLoads(<<>>, "services"))

\* the service lists the backend answers with
ServiceResponses ==
    {<<>>} \cup {<<Service(1, st, 1)>> : st \in Statuses}
           \cup {<<Service(1, "draft", 1), Service(2, "submitted", 2)>>}

NextServices ==
    \/ switchPage("services")
    \/ \E i \in DOMAIN reqs : \E items \in ServiceResponses : loadServicesOk(i, items) /\ UNCHANGED pagination
    \/ \E i \in DOMAIN reqs : loadServicesFail(i)
    \/ \E i \in DOMAIN reqs : loadServiceSuppliersOk(i)
    \/ \E i \in DOMAIN reqs : loadServiceSuppliersFail(i)
    \/ \E n \in DOMAIN servicesTable : submitService(n)
    \/ \E n \in DOMAIN servicesTable : confirmService(n)
    \/ \E n \in DOMAIN servicesTable : deleteService(n)
    \/ \E yes \in BOOLEAN : ServiceDialogAnswer(yes)
    \/ \E i \in DOMAIN reqs : ServiceRequestOk(i)
    \/ \E i \in DOMAIN reqs : ServiceRequestFail(i)

SpecServices == InitServices /\ [][NextServices]_vars

\* the services page with its list shown
InitServiceForm ==
    /\ InitLists(Users \cup {UnlinkedSupplier}, "services", <<>>)

\* what a user can leave in the service form
ServiceForms ==
    [amount : {<<"5">>, <<"-", ".", "5">>, <<"a">>},
     supplier_id : {Undefined, <<"2">>},
     user_username : {Undefined, <<" ">>, <<" ", "u">>}]

NextServiceForm ==
    \/ \E id \in {0, 1} : openServiceModal(id)
    \/ \E i \in DOMAIN reqs : \E st \in {"draft", "submitted"} :
            openServiceModalServiceOk(i, st)
    \/ \E i \in DOMAIN reqs : openServiceModalServiceFail(i)
    \/ \E i \in DOMAIN reqs : \E sid \in {NULL, Num(1)} :
            openServiceModalUserOk(i, sid)
    \/ \E i \in DOMAIN reqs : openServiceModalUserFail(i)
    \/ \E i \in DOMAIN reqs : \E failed \in BOOLEAN :
            openServiceModalSuppliersDone(i, failed)
    \/ \E m \in modals : \E form \in ServiceForms : saveService(m, form)
    \/ \E i \in DOMAIN reqs : saveServiceOk(i)
    \/ \E i \in DOMAIN reqs : saveServiceFail(i)
    \/ closeModal("serviceModal")
    \/ \E i \in DOMAIN reqs : loadServicesOk(i, <<Service(1, "draft", 1)>>) /\ UNCHANGED pagination
    \/ \E i \in DOMAIN reqs : loadServicesFail(i)

SpecServiceForm == InitServiceForm /\ [][NextServiceForm]_vars

(***************************************************************************)
(* The cart of a logged-in user                                            *)
(***************************************************************************)

\* the main page after the product list was loaded, the cart still empty
InitCartOf(catalogues, users) ==
    /\ catalogue \in catalogues
    /\ phase = "main"
    /\ currentUser \in users
    /\ currentPage = "products"
    /\ cart = EmptyCart
    /\ badge = {}
    /\ cartModal = ClosedModal
    /\ adds = <<>>
    /\ saves = [i \in SaveIds |-> IdleSave]
    /\ posted = [i \in SaveIds |-> <<>>]
    /\ modalBody = NoBody
    /\ received = NoCall
    /\ pagination = PaginationAfterInit
    /\ ordersPage = 1
    /\ reqs = <<>>
    /\ lastEvent = NoEvent
    /\ ui = initUI(currentUser, DefaultUi)
    /\ productsPage = 1
    /\ servicesPage = 1
    /\ productsTable = renderProductsTable(currentUser, <<1, 2>>)
    /\ ordersTable = <<>>
    /\ servicesTable = <<>>
    /\ usersTable = <<>>
    /\ dialog = NoDialog
    /\ modals = {}

InitCart == InitCartOf(Catalogues, {User("normal"), User("supplier")})

\* the cart's handlers; the history of the POSTs is not kept
NextCart ==
    \/ \E m \in BOOLEAN : openCartModal(m) /\ UNCHANGED detailVars
    \/ closeCartModal /\ UNCHANGED detailVars
    \/ \E p \in DOMAIN catalogue : addProductToCart(p) /\ UNCHANGED detailVars
    \/ \E i \in 1..MaxInFlight : addProductToCartOk(i) /\ UNCHANGED detailVars
    \/ \E i \in 1..MaxInFlight : addProductToCartFail(i) /\ UNCHANGED detailVars
    \/ \E s \in DOMAIN cartModal.rows : \E x \in 1..cartModal.rows[s] :
            removeFromCart(s, x) /\ UNCHANGED detailVars
    \/ \E s \in DOMAIN cartModal.rows : \E x \in 1..cartModal.rows[s] :
            toggleMute(s, x) /\ UNCHANGED detailVars
    \/ \E s \in DOMAIN cartModal.rows : \E x \in 1..cartModal.rows[s] :
            \E raw \in QtyInputs : updateCartQuantity(s, x, raw) /\ UNCHANGED detailVars
    \/ \E s \in DOMAIN cartModal.rows : \E x \in 1..cartModal.rows[s] :
            \E raw \in QtyInputs :
                updateCartQuantityFromInput(s, x, raw) /\ UNCHANGED detailVars
    \/ \E s \in DOMAIN cartModal.rows : \E x \in 1..cartModal.rows[s] :
            \E d \in {-1, 1} : adjustQuantity(s, x, d) /\ UNCHANGED detailVars
    \/ \E i \in SaveIds : saveOrder(i) /\ UNCHANGED detailVars
    \/ \E i \in SaveIds : saveOrderPostOk(i) /\ UNCHANGED detailVars
    \/ \E i \in SaveIds : saveOrderPostFail(i) /\ UNCHANGED detailVars

SpecCart == InitCart /\ [][NextCart]_vars

(***************************************************************************)
(* Properties of the cart                                                  *)
(***************************************************************************)
\* the saveOrder invocation the last step completed
LastRun == lastEvent.run
SaveCompleted == LastRun.outcome # "none"

\* C1: whenever an invocation of saveOrder finishes with every order POST
\* having succeeded, the cart is the empty mapping and the badge is absent;
\* an invocation that finishes otherwise leaves the cart as it was.
C1_CartDiscardedOnSubmission ==
    [][SaveCompleted' =>
          IF LastRun'.outcome # "post_failed"
          THEN cart' = EmptyCart /\ badge' = {}
          ELSE cart' = cart]_vars

\* C2: every line item stored under cart[s] was built from a product whose
\* supplier_id is s.
C2_GroupedBySupplier ==
    \A s \in DOMAIN cart : \A j \in DOMAIN cart[s] : cart[s][j].built_from = s

\* two supplier groups are in the cart, one item was added twice
C2_Witness ==
    /\ Cardinality(DOMAIN cart) = 2
    /\ \E s \in DOMAIN cart : \E j \in DOMAIN cart[s] : cart[s][j].quantity = 2

\* the POST body carries exactly the line items of the group
SameItems(body, items) ==
    /\ Len(body.items) = Len(items)
    /\ \A j \in 1..Len(items) :
          /\ body.items[j].product_id = items[j].product_id
          /\ body.items[j].internal_price = items[j].internal_price
          /\ body.items[j].tax_included_price = items[j].tax_included_price
          /\ body.items[j].quantity = items[j].quantity
          /\ body.items[j].muted = items[j].muted

\* C3: a saveOrder invocation that succeeds, started on a cart with N supplier
\* groups and not interleaved with other cart mutations, has sent exactly N
\* POST /orders/ requests, one per group, each with the group's supplier id
\* and exactly the group's line items.
C3_OnePostPerGroup ==
    (LastRun.outcome = "success" /\ ~LastRun.interleaved) =>
        /\ Len(LastRun.sent) = Cardinality(DOMAIN LastRun.start)
        /\ \A s \in DOMAIN LastRun.start :
              \E n \in 1..Len(LastRun.sent) :
                  /\ LastRun.sent[n].supplier_id = Num(s)
                  /\ SameItems(LastRun.sent[n], LastRun.start[s])
                  /\ \A m \in 1..Len(LastRun.sent) :
                        LastRun.sent[m].supplier_id = Num(s) => m = n

\* an order of two groups was saved, with a muted item and a quantity of 2
C3_Witness ==
    /\ LastRun.outcome = "success"
    /\ ~LastRun.interleaved
    /\ Cardinality(DOMAIN LastRun.start) = 2
    /\ \E s \in DOMAIN LastRun.start : LastRun.start[s][1].muted
    /\ \E s \in DOMAIN LastRun.start : LastRun.start[s][1].quantity = 2

(***************************************************************************)
(* Properties of the main page                                             *)
(***************************************************************************)
\* C4: a handler of the main page that handled a rejected backend request
\* showed exactly one message, of type error and ending with the error's
\* text; it showed no success message.
C4_FailureShowsOneError ==
    (phase = "main" /\ lastEvent.fail) =>
        /\ Len(lastEvent.shown) = 1
        /\ lastEvent.shown[1].type = "error"
        /\ lastEvent.shown[1].err

\* C5 as stated: at most one backend request awaits its response.
C5_AtMostOneInFlight == InFlight <= 1

\* C5: the requests that await their response belong to pairwise different
\* invocations of async functions: an invocation awaits the response of a
\* request before it issues its next one, while different invocations
\* (the loaders started by switchPage and by the page's initialisation, a
\* second click) have requests in flight together.
C5_OneRequestPerInvocation ==
    \A i, j \in DOMAIN reqs : i # j => reqs[i].inv # reqs[j].inv

\* openProductModal awaits its second request, the supplier list, while a
\* request of another invocation is in flight
C5_Witness ==
    /\ Len(reqs) = 2
    /\ \E i \in DOMAIN reqs :
          /\ reqs[i].h = "openProductModal"
          /\ reqs[i].r = "GET /api/suppliers/"
          /\ reqs[i].arg # 0

\* the views' tests of the user type before they render an internal price:
\* viewOrderDetail, renderCartContent (both layouts and the total line),
\* and updateCartTotals
OrderDetailShowsInternal(user) == user.user_type # "supplier"
CartShowsInternal(user) ==
    user.user_type # "supplier" /\ user.user_type # "student"
CartTotalsShowInternal(user) == user.user_type # "supplier"

\* C9: while the current user is a supplier or a student user, no product row
\* shows an internal-price cell, and neither the order detail dialog, the
\* cart nor the cart total line written after a quantity update shows an
\* internal price.
C9_InternalPriceHidden ==
    currentUser.user_type \in {"supplier", "student"} =>
        /\ \A n \in DOMAIN productsTable : ~productsTable[n].internal.rendered
        /\ ~OrderDetailShowsInternal(currentUser)
        /\ ~CartShowsInternal(currentUser)
        /\ ~CartTotalsShowInternal(currentUser)

\* C10: once initUI ran, a supplier has the cart button and the statistics
\* navigation hidden, both action bars shown and the internal-price header
\* hidden; a normal user has the statistics navigation and the internal-price
\* header hidden; the user-management card is shown exactly for an admin.
C10_InitUIGating ==
    phase = "main" =>
        /\ currentUser.user_type = "supplier" =>
              /\ ui.cartBtn = "none"
              /\ ui.statisticsNav = "none"
              /\ ui.productsActions = "flex"
              /\ ui.servicesActions = "flex"
              /\ ui.internalPriceHeader = "none"
        /\ currentUser.user_type = "normal" =>
              /\ ui.statisticsNav = "none"
              /\ ui.internalPriceHeader = "none"
        /\ ui.usersManagementCard = "block" <=> currentUser.user_type = "admin"

(***************************************************************************)
(* Properties of the order list                                            *)
(***************************************************************************)
\* C6: every rendered order row offers submit exactly when the user is not a
\* supplier and the row's status is draft, confirm exactly when the user is a
\* supplier and the status is submitted, and delete exactly when the user is
\* not a supplier; every status request in flight was started from a row that
\* showed draft (for new_status=submitted) or submitted (for
\* new_status=confirmed).
C6_OrderActionsGated ==
    /\ \A n \in DOMAIN ordersTable :
          LET row == ordersTable[n]
              supplier == currentUser.user_type = "supplier"
          IN /\ "submit" \in row.actions <=> (~supplier /\ row.status = "draft")
             /\ "confirm" \in row.actions <=> (supplier /\ row.status = "submitted")
             /\ "delete" \in row.actions <=> ~supplier
    /\ \A i \in DOMAIN reqs :
          /\ reqs[i].r = "PUT /orders/id/status?new_status=submitted"
                => reqs[i].seen = "draft"
          /\ reqs[i].r = "PUT /orders/id/status?new_status=confirmed"
                => reqs[i].seen = "submitted"

\* a submit request is in flight while the list shows a draft order with
\* the submit button and a submitted order without it
C6_Witness ==
    /\ \E i \in DOMAIN reqs : reqs[i].h = "submitOrder"
    /\ \E n \in DOMAIN ordersTable :
          ordersTable[n].status = "draft" /\ "submit" \in ordersTable[n].actions
    /\ \E n \in DOMAIN ordersTable :
          ordersTable[n].status = "submitted" /\ ordersTable[n].actions = {"view", "delete"}

(***************************************************************************)
(* Properties of the service list and the service form                     *)
(***************************************************************************)
\* C7: every rendered service row offers submit exactly when the user is a
\* supplier and the row's status is draft, and confirm exactly when the user
\* is a normal user or an admin, the status is submitted and the record's
\* user_id is the current user's id; every status request in flight was
\* started from a row that showed draft (for new_status=submitted) or
\* submitted (for new_status=confirmed).
C7_ServiceActionsGated ==
    /\ \A n \in DOMAIN servicesTable :
          LET row == servicesTable[n]
              t == currentUser.user_type
          IN /\ "submit" \in row.actions <=> (t = "supplier" /\ row.status = "draft")
             /\ "confirm" \in row.actions <=>
                   /\ t \in {"normal", "admin"}
                   /\ row.status = "submitted"
                   /\ row.user_id = currentUser.id
    /\ \A i \in DOMAIN reqs :
          /\ reqs[i].r = "PUT /services/id/status?new_status=submitted"
                => reqs[i].seen = "draft" /\ currentUser.user_type = "supplier"
          /\ reqs[i].r = "PUT /services/id/status?new_status=confirmed"
                => reqs[i].seen = "submitted" /\ currentUser.user_type \in {"normal", "admin"}

\* a confirm request is in flight while the list shows a submitted record of
\* another user, without the confirm button
C7_Witness ==
    /\ \E i \in DOMAIN reqs : reqs[i].h = "confirmService"
    /\ \E n \in DOMAIN servicesTable :
          /\ servicesTable[n].status = "submitted"
          /\ servicesTable[n].user_id # currentUser.id
          /\ "confirm" \notin servicesTable[n].actions

\* C8: every POST /services/ in flight was sent by a supplier user that has a
\* supplier_id, carries that supplier_id and a user_username that is not
\* empty and has no white space around it; a service form has saveService
\* bound exactly when the user is a supplier and the form is for a new record
\* or a record in draft status.
C8_ServiceCreatedBySupplier ==
    /\ \A i \in DOMAIN reqs :
          reqs[i].r = "POST /services/" =>
              /\ currentUser.user_type = "supplier"
              /\ currentUser.supplier_id # NULL
              /\ reqs[i].body.supplier_id = currentUser.supplier_id
              /\ reqs[i].body.user_username \notin {Undefined, <<>>}
              /\ trim(reqs[i].body.user_username) = reqs[i].body.user_username
    /\ \A m \in modals :
          m.id = "serviceModal" =>
              (m.bound <=> /\ currentUser.user_type = "supplier"
                           /\ (m.arg = 0 \/ m.status = "draft"))

\* a POST /services/ is in flight whose user name was typed with white
\* space before it, while the form of a submitted record is open without a
\* save handler
C8_Witness ==
    /\ \E i \in DOMAIN reqs :
          reqs[i].r = "POST /services/" /\ reqs[i].body.user_username = <<"u">>
    /\ \E m \in modals : m.id = "serviceModal" /\ ~m.bound /\ m.status = "submitted"

(***************************************************************************)
(* The page load and the controls bound when the scripts are loaded        *)
(***************************************************************************)
\* /users/me answered with an empty body: checkAuth returns it, `!user` holds
\* and the page goes to '/'
checkAuthNothing ==
    /\ phase = "auth"
    /\ phase' = "redirected"
    /\ lastEvent' = Event(FALSE, <<>>)
    /\ UNCHANGED <<catalogue, currentUser, ui, currentPage, cartVars,
                   pageNoVars, tableVars, reqs, dialog, modals>>

\* the mobile cart button: its listener is added when statistics.js is
\* loaded, not by initUI, so it answers while /users/me is still awaited
mobileCartBtn(mobile) ==
    /\ phase \in {"auth", "main"}
    /\ cartModal' = [open |-> TRUE, mobile |-> mobile, rows |-> RenderedRows(cart)]
    /\ lastEvent' = Event(FALSE, <<>>)
    /\ UNCHANGED <<userVars, viewVars, cart, badge, adds, saves, ordersPage, reqs>>

NextLoad ==
    \/ DOMContentLoaded
    \/ \E t \in UserTypes : checkAuthOk(User(t))
    \/ checkAuthFail
    \/ checkAuthNothing
    \/ \E m \in BOOLEAN : mobileCartBtn(m) /\ UNCHANGED detailVars
    \/ \E m \in BOOLEAN : openCartModal(m) /\ UNCHANGED detailVars
    \/ closeCartModal /\ UNCHANGED detailVars
    \/ \E i \in DOMAIN reqs : \E items \in ProductLists : loadProductsOk(i, items) /\ UNCHANGED pagination
    \/ \E i \in DOMAIN reqs : loadProductsFail(i)
    \/ \E i \in DOMAIN reqs : \E users \in UserLists : loadUsersOk(i, users)
    \/ \E i \in DOMAIN reqs : loadUsersFail(i)
    \/ \E p \in DOMAIN catalogue : addProductToCart(p) /\ UNCHANGED detailVars
    \/ \E i \in 1..MaxInFlight : addProductToCartOk(i) /\ UNCHANGED detailVars
    \/ \E i \in 1..MaxInFlight : addProductToCartFail(i) /\ UNCHANGED detailVars

SpecLoad == InitPage /\ [][NextLoad]_vars

\* a list or the cart view is on the page
ViewRendered ==
    \/ cartModal.open
    \/ productsTable # <<>>
    \/ ordersTable # <<>>
    \/ servicesTable # <<>>
    \/ usersTable # <<>>

\* C11: when checkAuth yields no user the page goes to '/' and initUI,
\* initNavigation and loadProducts have not run; whenever a list or the cart
\* view is rendered, currentUser is a user that /users/me returned.
C11_ViewsNeedUser ==
    /\ phase = "redirected" => (ui = DefaultUi /\ reqs = <<>> /\ ~ViewRendered)
    /\ ViewRendered => (phase = "main" /\ currentUser # NoUser)

(***************************************************************************)
(* Properties of saveOrder under retries and overlapping invocations       *)
(***************************************************************************)
\* the POST bodies of the awaiting invocation sv that were answered with
\* success: all it sent but the one in flight
AnsweredPosts(sv) == {sv.sent[a] : a \in 1..(Len(sv.sent) - 1)}

\* C12: no supplier group's line items are submitted in more than one
\* successful POST /orders/: two invocations of saveOrder never both have a
\* successful POST of the same group with the same line items.
C12_NoGroupSubmittedTwice ==
    \A i, j \in SaveIds :
        (/\ i # j
         /\ saves[i].pc = "awaiting" /\ ~saves[i].interleaved
         /\ saves[j].pc = "awaiting" /\ ~saves[j].interleaved)
        => AnsweredPosts(saves[i]) \cap AnsweredPosts(saves[j]) = {}

\* the history of a handler step: what invocation i has sent after the step
PostedAfterSaveOrder(i) ==
    IF DOMAIN cart = {} THEN posted
    ELSE LET k == Head(SortedKeys(DOMAIN cart))
         IN [posted EXCEPT ![i] = <<PostBody(k, cart[k])>>]

PostedAfterPostOk(i) ==
    LET keys == RemainingKeys(saves[i], cart)
    IN IF keys = <<>> \/ Head(keys) \notin DOMAIN cart
       THEN [posted EXCEPT ![i] = <<>>]
       ELSE [posted EXCEPT ![i] = Append(@, PostBody(Head(keys), cart[Head(keys)]))]

\* the cart's handlers with the history of the POSTs kept
NextSave ==
    \/ \E m \in BOOLEAN : openCartModal(m) /\ UNCHANGED detailVars
    \/ closeCartModal /\ UNCHANGED detailVars
    \/ \E p \in DOMAIN catalogue : addProductToCart(p) /\ UNCHANGED detailVars
    \/ \E i \in 1..MaxInFlight : addProductToCartOk(i) /\ UNCHANGED detailVars
    \/ \E i \in 1..MaxInFlight : addProductToCartFail(i) /\ UNCHANGED detailVars
    \/ \E s \in DOMAIN cartModal.rows : \E x \in 1..cartModal.rows[s] :
            removeFromCart(s, x) /\ UNCHANGED detailVars
    \/ \E s \in DOMAIN cartModal.rows : \E x \in 1..cartModal.rows[s] :
            \E raw \in QtyInputs : updateCartQuantity(s, x, raw) /\ UNCHANGED detailVars
    \/ \E s \in DOMAIN cartModal.rows : \E x \in 1..cartModal.rows[s] :
            \E raw \in QtyInputs :
                updateCartQuantityFromInput(s, x, raw) /\ UNCHANGED detailVars
    \/ \E s \in DOMAIN cartModal.rows : \E x \in 1..cartModal.rows[s] :
            \E d \in {-1, 1} : adjustQuantity(s, x, d) /\ UNCHANGED detailVars
    \/ \E i \in SaveIds : saveOrder(i) /\ posted' = PostedAfterSaveOrder(i)
                         /\ UNCHANGED <<modalBody, received, pagination>>
    \/ \E i \in SaveIds : saveOrderPostOk(i) /\ posted' = PostedAfterPostOk(i)
                         /\ UNCHANGED <<modalBody, received, pagination>>
    \/ \E i \in SaveIds : saveOrderPostFail(i) /\ posted' = [posted EXCEPT ![i] = <<>>]
                         /\ UNCHANGED <<modalBody, received, pagination>>

InitSave == InitCartOf({<<2, 1>>}, {User("normal")})

SpecSave == InitSave /\ [][NextSave]_vars

\* the line item of group s is in one of the POST bodies, with at least its
\* quantity
Submitted(s, item, bodies) ==
    \E a \in DOMAIN bodies :
        /\ bodies[a].supplier_id = Num(s)
        /\ \E b \in DOMAIN bodies[a].items :
              /\ bodies[a].items[b].product_id = item.product_id
              /\ bodies[a].items[b].quantity >= item.quantity

\* invocation i of saveOrder ends with this step: it clears the cart
ClearsCart(i) ==
    /\ saves[i].pc = "awaiting"
    /\ saves'[i].pc = "idle"
    /\ LastRun'.outcome = "success"

\* C13: whenever saveOrder clears the cart, every line item in the cart at
\* that moment, with every unit of its quantity, was sent in a POST of that
\* invocation that succeeded, also when an addProductToCart or a quantity
\* update completed while saveOrder was awaiting.
C13_ClearedItemsWereSubmitted ==
    [][\A i \in SaveIds :
          ClearsCart(i) =>
              \A s \in DOMAIN cart : \A x \in DOMAIN cart[s] :
                  Submitted(s, cart[s][x], posted[i])]_vars

\* C14: when a POST /orders/ of saveOrder fails, the cart, the badge and the
\* cart modal are left as they were, exactly one message is shown, the error
\* message, and the invocation sends no further POST: it is over.
C14_FailedPostKeepsCart ==
    [][LastRun'.outcome = "post_failed" =>
          /\ cart' = cart
          /\ badge' = badge
          /\ cartModal' = cartModal
          /\ lastEvent'.shown = <<Msg("error", "save order failed", TRUE)>>
          /\ \E i \in SaveIds :
                /\ saves[i].pc = "awaiting"
                /\ saves'[i] = IdleSave
                /\ \A j \in SaveIds \ {i} : saves'[j] = saves[j]]_vars

\* the second POST of an invocation has failed after its first one succeeded:
\* the modal is still open and the cart is the one the invocation started on
C14_Witness ==
    /\ LastRun.outcome = "post_failed"
    /\ Len(LastRun.sent) = 2
    /\ cartModal.open
    /\ cart = LastRun.start
    /\ Cardinality(DOMAIN cart) = 2

(***************************************************************************)
(* Properties of the quantities, the groups and the badge                  *)
(***************************************************************************)
\* C15: every line item in the cart has an integer quantity of at least 1.
C15_QuantityAtLeastOne ==
    \A s \in DOMAIN cart : \A j \in DOMAIN cart[s] :
        cart[s][j].quantity \in Int /\ cart[s][j].quantity >= 1

\* a quantity field was just answered with the error message while the cart
\* holds an item whose quantity was raised and one that was added once
C15_Witness ==
    /\ lastEvent.shown = <<Msg("error", "quantity must be > 0", FALSE)>>
    /\ \E s \in DOMAIN cart : \E j \in DOMAIN cart[s] : cart[s][j].quantity = MaxQty
    /\ \E s \in DOMAIN cart : \E j \in DOMAIN cart[s] : cart[s][j].quantity = 1

(***************************************************************************)
(* The body of the cart modal: quantity fields and the total line          *)
(***************************************************************************)
\* (price || 0)
OrZero(price) == IF price = NULL THEN 0 ELSE price[1]

\* the test of the totals loop before it adds an internal price
InternalCounted(user, item) ==
    CartShowsInternal(user) /\ item.internal_price # NULL

\* the totals loop over the items of one group; it skips the muted items
RECURSIVE TotalInternalOf(_, _)
TotalInternalOf(user, items) ==
    IF items = <<>> THEN 0
    ELSE LET item == Head(items)
         IN (IF ~item.muted /\ InternalCounted(user, item)
             THEN OrZero(item.internal_price) * item.quantity ELSE 0)
            + TotalInternalOf(user, Tail(items))

\* a slip: the muted items are counted as well
RECURSIVE TotalTaxIncludedWithMutedOf(_)
TotalTaxIncludedWithMutedOf(items) ==
    IF items = <<>> THEN 0
    ELSE OrZero(Num(Head(items).tax_included_price)) * Head(items).quantity
         + TotalTaxIncludedWithMutedOf(Tail(items))

RECURSIVE TotalTaxIncludedOf(_)
TotalTaxIncludedOf(items) ==
    IF items = <<>> THEN 0
    ELSE LET item == Head(items)
         IN (IF ~item.muted
             THEN OrZero(Num(item.tax_included_price)) * item.quantity ELSE 0)
            + TotalTaxIncludedOf(Tail(items))

\* the totals loop over the groups: totalInternal and totalTaxIncluded
RECURSIVE CartTotals(_, _, _)
CartTotals(user, c, keys) ==
    IF keys = <<>> THEN [internal |-> 0, tax |-> 0]
    ELSE LET rest == CartTotals(user, c, Tail(keys))
         IN [internal |-> TotalInternalOf(user, c[Head(keys)]) + rest.internal,
             tax |-> TotalTaxIncludedOf(c[Head(keys)]) + rest.tax]

\* the text of #cartTotalText: the internal total is part of it or not
TotalText(showInternal, user, c) ==
    LET totals == CartTotals(user, c, SortedKeys(DOMAIN c))
    IN <<[internal |-> IF showInternal THEN Num(totals.internal) ELSE NULL,
          tax |-> totals.tax]>>

\* renderCartContent: for an empty cart only the message, else a quantity
\* field per line item, value="${item.quantity}", and the total line
renderCartContent(user, c) ==
    IF DOMAIN c = {} THEN NoBody
    ELSE [fields |-> [s \in DOMAIN c |->
                        [j \in 1..Len(c[s]) |-> KeyString(c[s][j].quantity)]],
          totals |-> TotalText(CartShowsInternal(user), user, c)]

\* updateCartTotals: rewrites the total line when there is one
updateCartTotals(user, c, body) ==
    IF body.totals = <<>> THEN body
    ELSE [body EXCEPT !.totals = TotalText(CartTotalsShowInternal(user), user, c)]

\* the modal body after a quantity field handler got the text raw
BodyAfterInput(supplierId, index, raw, newCart) ==
    IF QuantityRejected(parseInt(raw))
    THEN [modalBody EXCEPT
             !.fields[supplierId][index] = KeyString(cart[supplierId][index].quantity)]
    ELSE updateCartTotals(currentUser, newCart,
             [modalBody EXCEPT !.fields[supplierId][index] = raw])

\* the modal body after adjustQuantity
BodyAfterAdjust(supplierId, index, delta, newCart) ==
    LET newQuantity == cart[supplierId][index].quantity + delta
    IN IF newQuantity < 1 THEN modalBody
       ELSE [updateCartTotals(currentUser, newCart, modalBody) EXCEPT
                !.fields[supplierId][index] = KeyString(newQuantity)]

Call(h, supplierId, index, arg) ==
    [h |-> h, supplierId |-> supplierId, index |-> index, arg |-> arg]

\* the last step wrote the modal body with renderCartContent
Rendered == Call("renderCartContent", 0, 0, <<>>)

\* the cart's handlers with the modal body they write; the call of a
\* quantity handler is recorded when `record` is set
ViewStep(record) ==
    \/ \E m \in BOOLEAN :
            /\ openCartModal(m)
            /\ modalBody' = renderCartContent(currentUser, cart)
            /\ received' = Rendered /\ UNCHANGED <<posted, pagination>>
    \/ closeCartModal /\ modalBody' = NoBody /\ received' = NoCall /\ UNCHANGED <<posted, pagination>>
    \/ \E p \in DOMAIN catalogue :
            addProductToCart(p) /\ received' = NoCall /\ UNCHANGED <<posted, modalBody, pagination>>
    \/ \E i \in 1..MaxInFlight :
            addProductToCartOk(i) /\ received' = NoCall /\ UNCHANGED <<posted, modalBody, pagination>>
    \/ \E i \in 1..MaxInFlight :
            addProductToCartFail(i) /\ received' = NoCall /\ UNCHANGED <<posted, modalBody, pagination>>
    \/ \E s \in DOMAIN cartModal.rows : \E x \in 1..cartModal.rows[s] :
            /\ removeFromCart(s, x)
            /\ modalBody' = renderCartContent(currentUser, cart')
            /\ received' = Rendered /\ UNCHANGED <<posted, pagination>>
    \/ \E s \in DOMAIN cartModal.rows : \E x \in 1..cartModal.rows[s] :
            /\ toggleMute(s, x)
            /\ modalBody' = renderCartContent(currentUser, cart')
            /\ received' = Rendered /\ UNCHANGED <<posted, pagination>>
    \/ \E s \in DOMAIN cartModal.rows : \E x \in 1..cartModal.rows[s] :
            \E raw \in QtyInputs :
                /\ updateCartQuantity(s, x, raw)
                /\ modalBody' = BodyAfterInput(s, x, raw, cart')
                /\ received' = (IF record THEN Call("updateCartQuantity", s, x, raw) ELSE NoCall)
                /\ UNCHANGED <<posted, pagination>>
    \/ \E s \in DOMAIN cartModal.rows : \E x \in 1..cartModal.rows[s] :
            \E raw \in QtyInputs :
                /\ updateCartQuantityFromInput(s, x, raw)
                /\ modalBody' = BodyAfterInput(s, x, raw, cart')
                /\ received' = (IF record THEN Call("updateCartQuantityFromInput", s, x, raw) ELSE NoCall)
                /\ UNCHANGED <<posted, pagination>>
    \/ \E s \in DOMAIN cartModal.rows : \E x \in 1..cartModal.rows[s] :
            \E d \in {-1, 1} :
                /\ adjustQuantity(s, x, d)
                /\ modalBody' = BodyAfterAdjust(s, x, d, cart')
                /\ received' = (IF record THEN Call("adjustQuantity", s, x, d) ELSE NoCall)
                /\ UNCHANGED <<posted, pagination>>

NextView == ViewStep(TRUE)

InitView == InitCartOf({<<2, 1>>}, {User("normal"), User("student")})

SpecView == InitView /\ [][NextView]_vars

\* the same handlers, the calls not recorded
NextTotals == ViewStep(FALSE)

SpecTotals == InitView /\ [][NextTotals]_vars

\* the text is the decimal numeral of an integer greater than 0
IsPositiveInteger(raw) ==
    /\ raw # <<>>
    /\ \A n \in DOMAIN raw : raw[n] \in DigitChars
    /\ parseInt(raw)[1] > 0

\* the last step was a quantity handler called with something it must reject
RejectedCall(call, c) ==
    \/ /\ call.h \in {"updateCartQuantity", "updateCartQuantityFromInput"}
       /\ ~IsPositiveInteger(call.arg)
    \/ /\ call.h = "adjustQuantity"
       /\ c[call.supplierId][call.index].quantity + call.arg < 1

\* C16: when updateCartQuantity or updateCartQuantityFromInput receives a
\* value that is not an integer greater than 0, or adjustQuantity would take
\* the quantity below 1, the cart, the badge and the total line stay as they
\* were, one error message is shown and, for the two field handlers, the
\* field shows the stored quantity again.
C16_RejectedChangeKeepsCart ==
    [][RejectedCall(received', cart) =>
          /\ cart' = cart
          /\ badge' = badge
          /\ modalBody'.totals = modalBody.totals
          /\ Len(lastEvent'.shown) = 1
          /\ lastEvent'.shown[1].type = "error"
          /\ received'.h # "adjustQuantity" =>
                modalBody'.fields[received'.supplierId][received'.index]
                    = KeyString(cart[received'.supplierId][received'.index].quantity)]_vars

\* no two line items of a group have the same product id
OnePerProduct(c) ==
    \A s \in DOMAIN c : \A j, k \in DOMAIN c[s] :
        c[s][j].product_id = c[s][k].product_id => j = k

\* the step is the success path of addProductToCart for product p
AddedProduct(p) ==
    /\ lastEvent'.shown = <<Msg("success", "added to cart", FALSE)>>
    /\ \E i \in DOMAIN adds : adds[i] = p /\ adds' = Splice(adds, i)

\* C17: a supplier group holds at most one line item per product id, also
\* when fetches for the same product overlap; a successful addProductToCart
\* for a product that is in the cart raises the quantity of its item by
\* exactly 1 and adds no item.
C17_OneItemPerProduct ==
    [][/\ OnePerProduct(cart')
       /\ \A p \in DOMAIN catalogue :
             \A s \in DOMAIN cart : \A j \in DOMAIN cart[s] :
                 (AddedProduct(p) /\ cart[s][j].product_id = p) =>
                     cart' = [cart EXCEPT ![s][j].quantity = @ + 1]]_vars

\* the second of two overlapping fetches of a product has just raised its
\* quantity to 2, in a group of two items, and a third fetch of it is awaited
C17_Witness ==
    /\ lastEvent.shown = <<Msg("success", "added to cart", FALSE)>>
    /\ \E s \in DOMAIN cart :
          /\ Len(cart[s]) = 2
          /\ \E j \in DOMAIN cart[s] :
                /\ cart[s][j].quantity = 2
                /\ \E i \in DOMAIN adds : adds[i] = cart[s][j].product_id

\* C18: the cart never contains a supplier group without line items, and no
\* POST /orders/ of saveOrder carries an empty item list.
C18_NoEmptyGroup ==
    /\ \A s \in DOMAIN cart : Len(cart[s]) >= 1
    /\ \A i \in SaveIds : \A a \in DOMAIN posted[i] : Len(posted[i][a].items) >= 1

\* while a POST of saveOrder is awaited, removeFromCart has deleted a group
\* that the loop had still to visit
C18_Witness ==
    \E i \in SaveIds :
        /\ saves[i].pc = "awaiting"
        /\ ~saves[i].detached
        /\ Len(posted[i]) = 1
        /\ \E n \in DOMAIN saves[i].keys : saves[i].keys[n] \notin DOMAIN cart

\* the line items of the cart, as a set of <<supplier, index>> positions
Positions(c) == UNION {{<<s, j>> : j \in DOMAIN c[s]} : s \in DOMAIN c}

\* the sum of the quantities at the positions
RECURSIVE QuantityAt(_, _)
QuantityAt(c, positions) ==
    IF positions = {} THEN 0
    ELSE LET p == CHOOSE q \in positions : TRUE
         IN c[p[1]][p[2]].quantity + QuantityAt(c, positions \ {p})

\* C19: the badge of the cart button shows the sum of the quantities of all
\* line items, the muted ones included, and there is no badge exactly when
\* that sum is 0.
C19_BadgeShowsQuantity ==
    LET sum == QuantityAt(cart, Positions(cart))
    IN /\ sum > 0 => badge = {sum}
       /\ sum = 0 <=> badge = {}

\* a muted item of quantity 2 and an item of quantity 1: the badge shows 3
C19_Witness ==
    /\ badge = {3}
    /\ \E s \in DOMAIN cart : \E j \in DOMAIN cart[s] :
          cart[s][j].muted /\ cart[s][j].quantity = 2
    /\ \E s \in DOMAIN cart : \E j \in DOMAIN cart[s] :
          ~cart[s][j].muted /\ cart[s][j].quantity = 1

(***************************************************************************)
(* Properties of the total line                                            *)
(***************************************************************************)
\* the positions of the line items that are not muted
NotMuted(c) == {p \in Positions(c) : ~c[p[1]][p[2]].muted}

\* sum of tax_included_price * quantity over the positions
RECURSIVE TaxSum(_, _)
TaxSum(c, positions) ==
    IF positions = {} THEN 0
    ELSE LET p == CHOOSE q \in positions : TRUE
         IN c[p[1]][p[2]].tax_included_price * c[p[1]][p[2]].quantity
            + TaxSum(c, positions \ {p})

\* sum of internal_price * quantity over the positions with an internal price
RECURSIVE InternalSum(_, _)
InternalSum(c, positions) ==
    IF positions = {} THEN 0
    ELSE LET p == CHOOSE q \in positions : TRUE
             item == c[p[1]][p[2]]
         IN (IF item.internal_price = NULL THEN 0
             ELSE item.internal_price[1] * item.quantity)
            + InternalSum(c, positions \ {p})

\* C20: the tax-included total that renderCartContent renders is the sum of
\* tax_included_price * quantity over the line items that are not muted, and
\* the internal total it renders (for the users that see one) is the sum of
\* internal_price * quantity over the line items that are not muted and have
\* an internal price; muted items add to neither.
C20_TotalsSkipMuted ==
    (received = Rendered /\ modalBody.totals # <<>>) =>
        LET total == modalBody.totals[1]
        IN /\ total.tax = TaxSum(cart, NotMuted(cart))
           /\ IF CartShowsInternal(currentUser)
              THEN total.internal = Num(InternalSum(cart, NotMuted(cart)))
              ELSE total.internal = NULL

\* the cart was just rendered with product 1 muted and two units of product
\* 2: the total line shows internal 6 and tax-included 8
C20_Witness ==
    /\ received = Rendered
    /\ modalBody.totals = <<[internal |-> Num(6), tax |-> 8]>>
    /\ \E p \in Positions(cart) : cart[p[1]][p[2]].muted


\* C21: after a quantity handler changed a quantity, the total line that
\* updateCartTotals wrote is the total line renderCartContent produces for
\* the same cart and the same user.
C21_TotalsAgreeWithRender ==
    [][(/\ received'.h \in {"updateCartQuantity", "updateCartQuantityFromInput",
                           "adjustQuantity"}
        /\ cart' # cart
        /\ modalBody'.totals # <<>>)
       => modalBody'.totals = renderCartContent(currentUser, cart').totals]_vars


(***************************************************************************)
(* Properties of toggleMute, the confirmations and the pagination          *)
(***************************************************************************)
\* the fields of a line item but the muted flag
OtherFields(item) == DOMAIN item \ {"muted"}

\* C22: toggleMute(s, i) flips the muted flag of item i of group s and leaves
\* the other fields of that item, every other item and group and the badge
\* as they were; the row is still rendered, and toggling it once more gives
\* the cart of before.
C22_ToggleMuteFrame ==
    [][\A s \in DOMAIN cartModal.rows : \A i \in 1..cartModal.rows[s] :
          toggleMute(s, i) =>
              /\ DOMAIN cart' = DOMAIN cart
              /\ \A t \in DOMAIN cart :
                    /\ Len(cart'[t]) = Len(cart[t])
                    /\ \A j \in DOMAIN cart[t] :
                          IF t = s /\ j = i
                          THEN /\ cart'[t][j].muted = ~cart[t][j].muted
                               /\ \A f \in OtherFields(cart[t][j]) :
                                     cart'[t][j][f] = cart[t][j][f]
                          ELSE cart'[t][j] = cart[t][j]
              /\ badge' = badge
              /\ RowRendered(s, i)'
              /\ [cart' EXCEPT ![s][i].muted = ~@] = cart]_vars

\* the first of two items of a group was muted; the badge still counts both
C22_Witness ==
    /\ cartModal.open
    /\ \E s \in DOMAIN cart :
          /\ Len(cart[s]) = 2
          /\ cart[s][1].muted /\ ~cart[s][2].muted
          /\ cart[s][1].quantity = 1 /\ cart[s][2].quantity = 1
    /\ badge = {2}


(***************************************************************************)
(* deleteProduct and deleteUser                                            *)
(***************************************************************************)
\* the request a confirmed deleteProduct or deleteUser sends
DeleteRequest(h) ==
    CASE h = "deleteProduct" -> "DELETE /products/id"
      [] h = "deleteUser" -> "DELETE /users/id"

\* a click on the delete button of a row of the product table or of the user
\* table: the handler awaits confirmDialog
DeleteClick(h, table, n) ==
    /\ phase = "main"
    /\ dialog = NoDialog
    /\ n \in DOMAIN table
    /\ "delete" \in table[n].actions
    /\ dialog' = [h |-> h, id |-> table[n].id, status |-> "none"]
    /\ lastEvent' = NoEvent
    /\ UNCHANGED <<sessionVars, currentPage, cartVars, pageNoVars, tableVars,
                   reqs, modals>>

deleteProduct(n) == DeleteClick("deleteProduct", productsTable, n)
deleteUser(n) == DeleteClick("deleteUser", usersTable, n)

\* confirmDialog resolved: the handler returns, or sends its request
DeleteDialogAnswer(yes) ==
    /\ phase = "main"
    /\ dialog.h \in {"deleteProduct", "deleteUser"}
    /\ yes => InFlight < MaxInFlight
    /\ dialog' = NoDialog
    /\ reqs' = IF yes
               THEN Issue(reqs, dialog.h, DeleteRequest(dialog.h), dialog.id)
               ELSE reqs
    /\ lastEvent' = NoEvent
    /\ UNCHANGED <<sessionVars, currentPage, cartVars, pageNoVars, tableVars,
                   modals>>

\* the request succeeded: success message, then loadProducts(productsPage)
\* or loadUsers()
DeleteRequestOk(i) ==
    /\ phase = "main"
    /\ i \in DOMAIN reqs
    /\ reqs[i].h \in {"deleteProduct", "deleteUser"}
    /\ reqs' = IF reqs[i].h = "deleteProduct"
               THEN Issue(Without(reqs, i), "loadProducts", "GET /products/",
                          productsPage)
               ELSE Issue(Without(reqs, i), "loadUsers", "GET /users/", 0)
    /\ lastEvent' = Event(FALSE, <<Msg("success", reqs[i].h, FALSE)>>)
    /\ UNCHANGED <<sessionVars, currentPage, cartVars, pageNoVars, tableVars,
                   dialog, modals>>

DeleteRequestFail(i) ==
    /\ phase = "main"
    /\ i \in DOMAIN reqs
    /\ reqs[i].h \in {"deleteProduct", "deleteUser"}
    /\ Rejected(i, <<Msg("error", reqs[i].h, TRUE)>>)

\* the main page with the handlers that ask for a confirmation
NextConfirm ==
    \/ \E page \in {"products", "orders", "services"} : switchPage(page)
    \/ \E i \in DOMAIN reqs : \E items \in ProductLists : loadProductsOk(i, items) /\ UNCHANGED pagination
    \/ \E i \in DOMAIN reqs : \E items \in OrderLists : loadOrdersOk(i, items) /\ UNCHANGED pagination
    \/ \E i \in DOMAIN reqs : \E items \in ServiceLists : loadServicesOk(i, items) /\ UNCHANGED pagination
    \/ \E i \in DOMAIN reqs : loadServiceSuppliersOk(i)
    \/ \E i \in DOMAIN reqs : \E users \in UserLists : loadUsersOk(i, users)
    \/ \E n \in DOMAIN ordersTable : submitOrder(n)
    \/ \E n \in DOMAIN ordersTable : confirmOrder(n)
    \/ \E n \in DOMAIN ordersTable : deleteOrder(n)
    \/ \E n \in DOMAIN servicesTable : submitService(n)
    \/ \E n \in DOMAIN servicesTable : confirmService(n)
    \/ \E n \in DOMAIN servicesTable : deleteService(n)
    \/ \E n \in DOMAIN productsTable : deleteProduct(n)
    \/ \E n \in DOMAIN usersTable : deleteUser(n)
    \/ \E yes \in BOOLEAN : OrderDialogAnswer(yes)
    \/ \E yes \in BOOLEAN : ServiceDialogAnswer(yes)
    \/ \E yes \in BOOLEAN : DeleteDialogAnswer(yes)
    \/ \E i \in DOMAIN reqs : OrderRequestOk(i)
    \/ \E i \in DOMAIN reqs : OrderRequestFail(i)
    \/ \E i \in DOMAIN reqs : ServiceRequestOk(i)
    \/ \E i \in DOMAIN reqs : ServiceRequestFail(i)
    \/ \E i \in DOMAIN reqs : DeleteRequestOk(i)
    \/ \E i \in DOMAIN reqs : DeleteRequestFail(i)

SpecConfirm == InitOrders /\ [][NextConfirm]_vars

\* the handlers that ask for a confirmation, and the requests they send
ConfirmedHandlers ==
    {"submitOrder", "confirmOrder", "deleteOrder", "submitService",
     "confirmService", "deleteService", "deleteProduct", "deleteUser"}

ConfirmedRequest(h) ==
    IF h \in {"submitOrder", "confirmOrder", "deleteOrder"} THEN OrderRequest(h)
    ELSE IF h \in {"deleteProduct", "deleteUser"} THEN DeleteRequest(h)
    ELSE ServiceRequest(h)

\* the requests in flight that delete a record or change its status
Destructive(rs) ==
    {i \in DOMAIN rs : rs[i].r \in {ConfirmedRequest(h) : h \in ConfirmedHandlers}}

\* confirmDialog resolves to `yes` in this step
DialogAnswered(yes) ==
    OrderDialogAnswer(yes) \/ ServiceDialogAnswer(yes) \/ DeleteDialogAnswer(yes)

\* C23: a DELETE request or a PUT of a new status is only sent by the step in
\* which confirmDialog resolves to true, by the handler that asked and for the
\* record it asked about; when the dialog is declined no request is sent, no
\* message is shown and no list is reloaded or changed.
C23_RequestsNeedConfirmation ==
    [][/\ Cardinality(Destructive(reqs')) > Cardinality(Destructive(reqs)) =>
            /\ DialogAnswered(TRUE)
            /\ dialog.h \in ConfirmedHandlers
            /\ Len(reqs') = Len(reqs) + 1
            /\ reqs'[Len(reqs')].h = dialog.h
            /\ reqs'[Len(reqs')].r = ConfirmedRequest(dialog.h)
            /\ reqs'[Len(reqs')].arg = dialog.id
       /\ DialogAnswered(FALSE) =>
            /\ reqs' = reqs
            /\ lastEvent'.shown = <<>>
            /\ UNCHANGED <<tableVars, pageNoVars, currentPage>>]_vars

\* a confirmed deleteUser awaits its DELETE, and a dialog is open for
\* deleteProduct
C23_Witness ==
    /\ \E i \in DOMAIN reqs : reqs[i].r = "DELETE /users/id" /\ reqs[i].arg = 1
    /\ dialog.h = "deleteProduct"


(***************************************************************************)
(* The lists with their pagination bars                                    *)
(***************************************************************************)
\* the loader of a list, its request and its page variable
LoaderOf(list) ==
    CASE list = "products" -> "loadProducts"
      [] list = "orders" -> "loadOrders"
      [] list = "services" -> "loadServices"

ListRequest(list) ==
    CASE list = "products" -> "GET /products/"
      [] list = "orders" -> "GET /orders/"
      [] list = "services" -> "GET /services/"

PageOf(list) ==
    CASE list = "products" -> productsPage
      [] list = "orders" -> ordersPage
      [] list = "services" -> servicesPage

\* the totals the backend answers with: no record, or three pages
Totals == {0, 2 * productsPageSize + 1}

\* the pagination bar a loader renders from the response to request i: the
\* response carries the page and the page size that were asked for
PaginationAfterLoad(list, i, total) ==
    [pagination EXCEPT
        ![list] = renderPagination(reqs[i].arg, PageSizeOf(list), total)]

\* a click on an enabled button of the pagination bar of the list on the
\* page: onclick="loadProducts(${page - 1})" or (${page + 1}), up to the
\* await of the loader
PaginationClick(list, delta) ==
    /\ phase = "main"
    /\ currentPage = list
    /\ pagination[list].rendered
    /\ IF delta = 1 THEN pagination[list].next ELSE pagination[list].prev
    /\ InFlight < MaxInFlight
    /\ LET page == pagination[list].page + delta
       IN /\ productsPage' = IF list = "products" THEN page ELSE productsPage
          /\ ordersPage' = IF list = "orders" THEN page ELSE ordersPage
          /\ servicesPage' = IF list = "services" THEN page ELSE servicesPage
          /\ reqs' = Issue(reqs, LoaderOf(list), ListRequest(list), page)
    /\ lastEvent' = NoEvent
    /\ UNCHANGED <<sessionVars, currentPage, cartVars, tableVars, dialog, modals>>

NextLists ==
    \/ \E page \in Lists : switchPage(page)
    \/ \E list \in Lists : \E delta \in {-1, 1} : PaginationClick(list, delta)
    \/ \E i \in DOMAIN reqs : \E items \in ProductLists : \E total \in Totals :
            /\ loadProductsOk(i, items)
            /\ pagination' = PaginationAfterLoad("products", i, total)
    \/ \E i \in DOMAIN reqs : loadProductsFail(i)
    \/ \E i \in DOMAIN reqs : \E items \in OrderLists : \E total \in Totals :
            /\ loadOrdersOk(i, items)
            /\ pagination' = PaginationAfterLoad("orders", i, total)
    \/ \E i \in DOMAIN reqs : loadOrdersFail(i)
    \/ \E i \in DOMAIN reqs : \E items \in ServiceLists : \E total \in Totals :
            /\ loadServicesOk(i, items)
            /\ pagination' = PaginationAfterLoad("services", i, total)
    \/ \E i \in DOMAIN reqs : loadServicesFail(i)
    \/ \E i \in DOMAIN reqs : loadServiceSuppliersOk(i)
    \/ \E i \in DOMAIN reqs : loadServiceSuppliersFail(i)

InitListsPaged == InitLists({User("normal")}, "products", PageLoads(<<>>, "products"))

SpecLists == InitListsPaged /\ [][NextLists]_vars

\* C24: in every pagination bar the `previous` button is disabled exactly when
\* page <= 1 and the `next` button exactly when page >= totalPages, and an
\* enabled button requests a page from 1 to totalPages.
C24_ButtonsStayInRange ==
    \A list \in Lists :
        LET bar == pagination[list]
        IN bar.rendered =>
              /\ ~bar.prev <=> bar.page <= 1
              /\ ~bar.next <=> bar.page >= bar.totalPages
              /\ bar.prev => (bar.page - 1) \in 1..bar.totalPages
              /\ bar.next => (bar.page + 1) \in 1..bar.totalPages


\* a request of the list's loader awaits its response
Loading(list) == \E i \in DOMAIN reqs : reqs[i].h = LoaderOf(list)

\* C25: once no request of a list's loader is in flight, the pagination bar
\* and the table shown are those of the page requested last, which is the
\* page the list's page variable holds.
C25_ShownPageIsLastRequested ==
    \A list \in Lists :
        (pagination[list].rendered /\ ~Loading(list))
            => pagination[list].page = PageOf(list)

====
